---- MODULE Spec2Model ----
(***************************************************************************)
(* Verification model of vitepress-comment.                                *)
(*                                                                         *)
(*  Part I  - the client router (src/client/app/router.ts, createRouter)   *)
(*            together with the page-module loader of                      *)
(*            src/client/app/index.ts (newRouter).                         *)
(*  Part II - the production build (src/node/build/build.ts, bundle.ts,    *)
(*            render.ts) with the content resolver                         *)
(*            (src/node/plugins/dynamicRoutesPlugin.ts).                   *)
(*                                                                         *)
(* Strings of the program are sequences of one-character strings, so that  *)
(* the regular-expression replacements of the code are modelled by what    *)
(* they do to the characters.                                              *)
(***************************************************************************)
EXTENDS Integers, Sequences, FiniteSets, TLC

(***************************************************************************)
(* Bounds                                                                  *)
(***************************************************************************)
\* number of navigations (calls of go) of one browser session
MaxNav == 2
\* number of deployed versions of the site seen during one session
MaxDeploy == 2

(***************************************************************************)
(* String helpers                                                          *)
(***************************************************************************)
EndsWith(s, suf) ==
  /\ Len(s) >= Len(suf)
  /\ SubSeq(s, Len(s) - Len(suf) + 1, Len(s)) = suf

StartsWith(s, pre) ==
  /\ Len(s) >= Len(pre)
  /\ SubSeq(s, 1, Len(pre)) = pre

DropLast(s, k) == SubSeq(s, 1, Len(s) - k)

DropFirst(s, k) == SubSeq(s, k + 1, Len(s))

Last(s) == s[Len(s)]

S_md == <<".", "m", "d">>
S_html == <<".", "h", "t", "m", "l">>
S_index == <<"i", "n", "d", "e", "x">>
S_404md == <<"4", "0", "4">> \o S_md

(***************************************************************************)
(* Part I - client router                                                  *)
(***************************************************************************)
\* pathnames the session navigates to
P_a == <<"/", "a">>
P_b == <<"/", "b">>
\* a page whose built module has no default export
P_n == <<"/", "n">>
\* a path that is no page of the site
P_x == <<"/", "x">>
P_root == <<"/">>

Paths == {P_a, P_b, P_n, P_x}

\* the pages of the deployed site (keys of the hash map)
SitePages == {P_a, P_b, P_n}

\* pages whose module resolves but exports no default component
NoDefaultPages == {P_n}

Navs == 1..MaxNav

VARIABLES
  route,              \* router.ts:68   the reactive Route {path, component, data}
  latestPendingPath,  \* router.ts:105
  nav,                \* per call of go: position in go/loadPage and its locals
  isInitialPageLoad,  \* index.ts:151
  initialPath,        \* index.ts:153
  clientHashMap,      \* window.__VP_HASH_MAP__ (version of the map the page holds)
  serverVersion,      \* version of the site currently deployed
  firstLoad,          \* history: the first call of the page-module loader
  lastLoad,           \* history: the most recent call of the page-module loader
  latestStarted,      \* history: the navigation whose load was initiated last
  lastWrite,          \* history: the most recent mutation of the Route
  lastReturn,         \* history: the most recent go() that settled, and how
  location,           \* window.location: the URL of the current history entry
  history,            \* window.history: the entries of the session history
  afterCalls,         \* history: the invocations of onAfterRouteChanged
  hash,               \* window.location.hash of the current history entry
  lastClick           \* history: the click the listener handled in the last step

VARIABLES
  site,               \* the source tree and the user config the build runs on
  siteConfig,         \* build.ts:30   the resolved SiteConfig
  bpc,                \* position of build() (build.ts:24-176)
  pageToHashMap,      \* bundle.ts:53
  nextPage,           \* pMap: index of the next page handed to the mapper
  render,             \* per index of the pMap input: position of its renderPage
  htmlFiles,          \* HTML files written into outDir
  hashmapJson,        \* content of outDir/hashmap.json (NotWritten before)
  buildResult,        \* the promise returned by build()
  failedIn,           \* history: the step whose error build() rejected with
  mapWrites,          \* history: the steps that wrote pageToHashMap
  mapAtRender,        \* history: the map when the render phase started
  mapsSeen,           \* history: the maps the renderPage calls have read
  renderLog           \* history: what each settled renderPage call did

buildVars == <<site, siteConfig, bpc, pageToHashMap, nextPage, render,
               htmlFiles, hashmapJson, buildResult, failedIn, mapWrites,
               mapAtRender, mapsSeen, renderLog>>

routerVars == <<route, latestPendingPath, nav,
                isInitialPageLoad, initialPath, clientHashMap, serverVersion,
                firstLoad, lastLoad, latestStarted, lastWrite, lastReturn,
                location, history, afterCalls, hash, lastClick>>

\* the node-side functions that are called on their own (Part III)
VARIABLES
  call                \* the last call: the function, its arguments, its result

resolverVars == <<call>>

\* the dev server process of cli.ts (Part IV)
VARIABLES
  restartPromise,     \* cli.ts:33  0 for undefined, else the pending restart
  servers,            \* the servers createDevServer has created, in order
  restarts,           \* the restarts started (the async function of cli.ts:44-47)
  trig                \* the watcher events that ask for a restart

devVars == <<restartPromise, servers, restarts, trig>>

\* the static-data plugin of a vite process (Part VII)
VARIABLES
  isBuild,                \* part_006:146  set by configResolved
  idToPendingPromiseMap,  \* part_006:144  per loader id: its promise, if any
  idToLoaderModulesMap,   \* part_006:134  the loader ids whose module is kept
  loadCalls,              \* per call of the load hook: its position and locals
  executions              \* history: per loader id, the loads of its module
                          \* and the calls of its load function

dataVars == <<isBuild, idToPendingPromiseMap, idToLoaderModulesMap, loadCalls,
              executions>>

nonRouterVars == <<buildVars, resolverVars, devVars, dataVars>>
nonBuildVars == <<routerVars, resolverVars, devVars, dataVars>>
nonResolverVars == <<routerVars, buildVars, devVars, dataVars>>
nonDataVars == <<routerVars, buildVars, resolverVars, devVars>>

vars == <<routerVars, buildVars, resolverVars, devVars, dataVars>>

\* no vite process with the static-data plugin runs
DataOff ==
  /\ isBuild = FALSE
  /\ idToPendingPromiseMap = <<>>
  /\ idToLoaderModulesMap = {}
  /\ loadCalls = <<>>
  /\ executions = <<>>

\* no dev server runs
DevOff ==
  /\ restartPromise = 0
  /\ servers = <<>>
  /\ restarts = <<>>
  /\ trig = <<>>

\* no function has been called yet (each run of the process makes one call)
NoCall == [fn |-> "none", args |-> <<>>, result |-> <<>>]

\* the null / undefined path (no pathname equals it)
Null == <<"null">>
\* a null component, and the theme's NotFound component
NullComponent == [page |-> <<>>, hash |-> 0]
NotFoundComponent == [page |-> <<"NotFound">>, hash |-> 0]
NoFile == [page |-> <<>>, hash |-> 0, lean |-> FALSE]

\* index.ts:205  createRouter(loader, Theme.NotFound): the fallback component
fallbackComponent == NotFoundComponent

\* shared.ts notFoundPageData (relativePath and isNotFound are what the router uses)
notFoundPageData == [isNotFound |-> TRUE, relativePath |-> S_404md, module |-> NullComponent]

\* router.ts:47-51
getDefaultRoute == [path |-> P_root, component |-> NullComponent, data |-> notFoundPageData]

\* the module a page file evaluates to: its identity is the page and the build hash
Module(file) == [page |-> file.page, hash |-> file.hash]

\* __pageData.relativePath of a page module: the source file of the page
PageRelativePath(p) == DropFirst(p, 1) \o S_md

PageDataOf(m) == [isNotFound |-> FALSE, relativePath |-> PageRelativePath(m.page), module |-> m]

PageRoute_dataLater(pendingPath, m) ==
  [path |-> pendingPath, component |-> m, data |-> route.data]

\* router.ts:133-139  the Route after a successful load of module m for pendingPath
PageRoute(pendingPath, m) ==
  [path |-> pendingPath, component |-> m, data |-> PageDataOf(m)]

\* router.ts:199-204  relativePath of the not-found data (in the browser)
NotFoundRelativePath(pendingPath) ==
  LET s1 == IF pendingPath = <<>> \/ Last(pendingPath) = "/"
            THEN pendingPath \o S_index ELSE pendingPath
      s2 == (IF EndsWith(s1, S_html) THEN DropLast(s1, Len(S_html)) ELSE s1) \o S_md
  IN IF StartsWith(s2, <<"/">>) THEN DropFirst(s2, 1) ELSE s2

\* router.ts:196-205  the Route of the not-found fallback
NotFoundRoute(pendingPath, fallback) ==
  [path |-> pendingPath,
   component |-> fallback,
   data |-> [isNotFound |-> TRUE,
             relativePath |-> NotFoundRelativePath(pendingPath),
             module |-> NullComponent]]

\* client/app/utils.ts pathToFile (production, browser): the hashed chunk of
\* the page, or null when the hash map has no entry for it
pathToFile(path, hashMap) ==
  IF path \in SitePages
  THEN [page |-> path, hash |-> hashMap, lean |-> FALSE]
  ELSE NoFile

UseLean_initialOnly(initial, initPath, pageFilePath) == initial

\* index.ts:170  lean variant on the initial load or when back on the initial file
UseLean(initial, initPath, pageFilePath) ==
  initial \/ initPath = pageFilePath

\* index.ts:162-164
NextInitialPath(initial, initPath, pageFilePath) ==
  IF pageFilePath # NoFile /\ initial THEN pageFilePath ELSE initPath

\* index.ts:158-172  the file the loader imports for path (NoFile: returns null)
RequestedFile(path, hashMap, initial, initPath) ==
  LET pageFilePath == pathToFile(path, hashMap)
  IN IF pageFilePath = NoFile THEN NoFile
     ELSE IF UseLean(initial, NextInitialPath(initial, initPath, pageFilePath), pageFilePath)
          THEN [pageFilePath EXCEPT !.lean = TRUE]
          ELSE pageFilePath

IsLatest_always(latest, pendingPath) == TRUE

\* router.ts:125 and :194  is this load still the most recently requested one
IsLatest(latest, pendingPath) == latest = pendingPath

FetchErrorHandler_uncaught(isRetry) == "propagate"

\* router.ts:186-191  try { fetch hashmap.json; retry } catch (e) {}
FetchErrorHandler(isRetry) == "swallow"

\* a page chunk exists on the server only with the hash of the deployed version
FileExists(file) == file # NoFile /\ file.page \in SitePages /\ file.hash = serverVersion

\* locals of one go(href) -> loadPage(href) call, how the first import
\* attempt settled ("none" as long as it has not), and whether a later
\* navigation initiated its load while an import of this one was in flight
\* via: "go" or "popstate"; routeChange, pageLoad: what onBeforeRouteChange and
\* the last call of onBeforePageLoad returned to this navigation
NavInit ==
  [pc |-> "idle", href |-> P_root, isRetry |-> FALSE, file |-> NoFile,
   first |-> "none", imports |-> 0, superseded |-> FALSE,
   via |-> "none", routeChange |-> "none", pageLoad |-> "none"]

NoLoad == [path |-> Null, file |-> NoFile, isFirst |-> FALSE]
NoWrite == [nav |-> 0, kind |-> "none", latest |-> 0, superseded |-> FALSE]
NoReturn ==
  [nav |-> 0, result |-> "pending", imports |-> 0, fetches |-> 0,
   first |-> "none", last |-> "none", fetchFailed |-> FALSE,
   hookThrew |-> FALSE, latest |-> 0, superseded |-> FALSE]

\* an entry of the session history: its URL and whether its state object is
\* null (the entry the session was opened on, until replaceState gives it one)
Entry(url, h, state) == [url |-> url, hash |-> h, state |-> state]
NoHash == <<>>
H_s == <<"#", "s">>
Hashes == {NoHash, H_s}
InitialEntry == Entry(P_a, NoHash, "null")
\* the link clicked in the last step (NoClick when the step was no click);
\* pushed: the listener called pushState
NoClick == [path |-> Null, hash |-> NoHash, pushed |-> FALSE]

RouterInit ==
  /\ route = getDefaultRoute
  /\ latestPendingPath = Null
  /\ nav = [n \in Navs |-> NavInit]
  /\ isInitialPageLoad = TRUE
  /\ initialPath = NoFile
  /\ clientHashMap = 1
  /\ serverVersion = 1
  /\ firstLoad = NoLoad
  /\ lastLoad = NoLoad
  /\ latestStarted = 0
  /\ lastWrite = NoWrite
  /\ lastReturn = NoReturn
  /\ location = P_a
  /\ history = {InitialEntry}
  /\ afterCalls = {}
  /\ hash = NoHash
  /\ lastClick = NoClick

\* router.ts:194-206  the catch block's fallback: values of latestPendingPath,
\* route and lastWrite after it, given the value of latestPendingPath before it
Fallback(n, latest) ==
  IF IsLatest(latest, nav[n].href)
  THEN [latest |-> Null,
        route |-> NotFoundRoute(nav[n].href, fallbackComponent),
        write |-> [nav |-> n, kind |-> "notFound", latest |-> latestStarted,
                   superseded |-> nav[n].superseded],
        wrote |-> TRUE]
  ELSE [latest |-> latest, route |-> route, write |-> lastWrite, wrote |-> FALSE]

\* the locals of a call of go are gone once its promise has settled
Settled(n, first) ==
  [NavInit EXCEPT !.pc = "done", !.href = nav[n].href, !.first = first,
                  !.via = nav[n].via, !.routeChange = nav[n].routeChange,
                  !.pageLoad = nav[n].pageLoad]

\* how go(href) of navigation n settled: result of the promise, number of
\* import attempts and hashmap.json fetches, outcome of the first and of the
\* last import attempt
ReturnRecord(n, result, first, last, fetchFailed, hookThrew) ==
  [nav |-> n, result |-> result,
   imports |-> nav[n].imports,
   fetches |-> IF fetchFailed \/ nav[n].isRetry THEN 1 ELSE 0,
   first |-> first, last |-> last, fetchFailed |-> fetchFailed,
   hookThrew |-> hookThrew, latest |-> latestStarted,
   superseded |-> nav[n].superseded]

\* router.ts:90  `(await router.onBeforeRouteChange?.(href)) === false`
RouteChangeCancelled_never(verdict) == FALSE

RouteChangeCancelled(verdict) == verdict = "false"

\* router.ts:115  `(await router.onBeforePageLoad?.(href)) === false`
PageLoadCancelled_never(verdict) == FALSE

PageLoadCancelled(verdict) == verdict = "false"

\* router.ts:92-98  location and history after go(href) has passed the hook:
\* when href is not the current URL, replaceState gives the current entry a
\* state object and pushState adds the entry of href and moves to it
\* (the hrefs go is called with in the model carry no hash)
PushState(href) ==
  IF href # location \/ hash # NoHash
  THEN [location |-> href,
        history |-> (history \ {Entry(location, hash, "null"), Entry(href, NoHash, "null")})
                      \cup {Entry(location, hash, "set"), Entry(href, NoHash, "set")}]
  ELSE [location |-> location, history |-> history]

\* router.ts:101, :289  the caller of loadPage invokes onAfterRouteChanged once
\* loadPage has returned; wrote: this navigation's loadPage updated the Route,
\* cancelled: onBeforePageLoad returned false to it
onAfterRouteChanged(n, wrote, cancelled) ==
  afterCalls \cup {[nav |-> n, via |-> nav[n].via,
                     to |-> IF nav[n].via = "popstate" THEN location ELSE nav[n].href,
                     wrote |-> wrote, cancelled |-> cancelled,
                     superseded |-> nav[n].superseded]}

\* router.ts:86-100  go(href): onBeforeRouteChange gives its verdict, the
\* history entry is pushed and loadPage is called (it awaits onBeforePageLoad)
go(n, href, verdict) ==
  /\ nav[n].pc = "idle"
  /\ \A m \in Navs : m < n => nav[m].pc # "idle"
  /\ IF RouteChangeCancelled(verdict)
     THEN /\ nav' = [nav EXCEPT ![n] = [NavInit EXCEPT !.pc = "done", !.href = href,
                                                      !.via = "go",
                                                      !.routeChange = verdict]]
          /\ lastReturn' = [NoReturn EXCEPT !.nav = n, !.result = "resolved",
                                            !.latest = latestStarted]
          /\ UNCHANGED <<location, history, hash>>
     ELSE /\ nav' = [nav EXCEPT ![n].pc = "beforeLoad", ![n].href = href,
                                ![n].via = "go", ![n].routeChange = verdict]
          /\ location' = PushState(href).location
          /\ history' = PushState(href).history
          /\ hash' = NoHash
          /\ UNCHANGED lastReturn
  /\ UNCHANGED <<route, latestPendingPath, isInitialPageLoad,
                 initialPath, clientHashMap, serverVersion, firstLoad, lastLoad,
                 latestStarted, lastWrite, afterCalls>>
  /\ UNCHANGED nonRouterVars

\* router.go called by the application or the theme
Go(n, href, verdict) ==
  /\ go(n, href, verdict)
  /\ lastClick' = NoClick

\* router.ts:251-254  the clicked link leads to the page that is shown
SamePage(pathname, current) == pathname = current

\* router.ts:257  `hash !== currentUrl.hash`
HashChanged_always(h, current) == TRUE

HashChanged(h, current) == h # current

\* router.ts:215-276  the click listener, for a click it intercepts (an inbound
\* html link, no modifier key, no target, no download): a link to the current
\* pathname and search moves between the anchors of the page, any other link
\* is handed to go
Click(n, href, h, verdict) ==
  IF SamePage(href, location)
  THEN /\ lastClick' = [path |-> href, hash |-> h, pushed |-> HashChanged(h, hash)]
       /\ IF HashChanged(h, hash)
          THEN /\ history' = history \cup {Entry(href, h, "set")}
               /\ hash' = h
          ELSE UNCHANGED <<history, hash>>
       /\ UNCHANGED <<route, latestPendingPath, nav, isInitialPageLoad,
                      initialPath, clientHashMap, serverVersion, firstLoad, lastLoad,
                      latestStarted, lastWrite, lastReturn, location, afterCalls>>
       /\ UNCHANGED nonRouterVars
  ELSE /\ h = NoHash
       /\ go(n, href, verdict)
       /\ lastClick' = [path |-> href, hash |-> h, pushed |-> FALSE]

\* router.ts:281-290  the popstate listener: the browser has moved to the
\* entry e of the session history; an entry without a state object is ignored
PopState(n, e) ==
  /\ nav[n].pc = "idle"
  /\ \A m \in Navs : m < n => nav[m].pc # "idle"
  /\ e \in history
  /\ <<e.url, e.hash>> # <<location, hash>>
  /\ location' = e.url
  /\ hash' = e.hash
  /\ IF e.state = "null"
     THEN /\ nav' = [nav EXCEPT ![n] = [NavInit EXCEPT !.pc = "done", !.href = e.url,
                                                      !.via = "popstate"]]
          /\ lastReturn' = [NoReturn EXCEPT !.nav = n, !.result = "resolved",
                                            !.latest = latestStarted]
     ELSE /\ nav' = [nav EXCEPT ![n].pc = "beforeLoad", ![n].href = e.url,
                                ![n].via = "popstate"]
          /\ UNCHANGED lastReturn
  /\ UNCHANGED <<route, latestPendingPath, isInitialPageLoad,
                 initialPath, clientHashMap, serverVersion, firstLoad, lastLoad,
                 latestStarted, lastWrite, history, afterCalls>>
  /\ lastClick' = NoClick
  /\ UNCHANGED nonRouterVars

\* router.ts:115-120  the verdict of onBeforePageLoad; on pass the load is
\* registered as the latest one and the loader (index.ts:156-204) is called
BeforePageLoad(n, verdict) ==
  /\ nav[n].pc \in {"beforeLoad", "retrying"}
  /\ \/ /\ verdict # "throw"
        /\ ~PageLoadCancelled(verdict)
        /\ LET pageFilePath == pathToFile(nav[n].href, clientHashMap)
               file == RequestedFile(nav[n].href, clientHashMap,
                                     isInitialPageLoad, initialPath)
               load == [path |-> nav[n].href, file |-> file,
                        isFirst |-> firstLoad = NoLoad]
           IN /\ latestPendingPath' = nav[n].href
              /\ initialPath' = NextInitialPath(isInitialPageLoad, initialPath, pageFilePath)
              /\ isInitialPageLoad' = FALSE
              /\ firstLoad' = IF firstLoad = NoLoad THEN load ELSE firstLoad
              /\ lastLoad' = load
              /\ latestStarted' = IF nav[n].isRetry THEN latestStarted ELSE n
              /\ nav' = [m \in Navs |->
                           IF m = n
                           THEN [nav[n] EXCEPT !.pc = "importing", !.file = file,
                                               !.imports = @ + 1,
                                               !.pageLoad = verdict]
                           ELSE IF nav[m].pc = "importing" /\ ~nav[n].isRetry
                           THEN [nav[m] EXCEPT !.superseded = TRUE]
                           ELSE nav[m]]
              /\ UNCHANGED <<route, lastWrite, lastReturn, afterCalls>>
     \/ /\ verdict # "throw"
        /\ PageLoadCancelled(verdict)
        /\ nav' = [nav EXCEPT ![n] = [Settled(n, nav[n].first) EXCEPT !.pageLoad = verdict]]
        /\ lastReturn' = ReturnRecord(n, "resolved", nav[n].first, "none", FALSE, FALSE)
        /\ afterCalls' = onAfterRouteChanged(n, FALSE, TRUE)
        /\ UNCHANGED <<route, latestPendingPath, isInitialPageLoad, initialPath,
                       firstLoad, lastLoad, latestStarted, lastWrite>>
     \/ /\ verdict = "throw"
        /\ IF nav[n].isRetry /\ FetchErrorHandler(TRUE) = "swallow"
           THEN LET f == Fallback(n, latestPendingPath)
                IN /\ latestPendingPath' = f.latest
                   /\ route' = f.route
                   /\ lastWrite' = f.write
                   /\ lastReturn' = ReturnRecord(n, "resolved", nav[n].first,
                                                 "none", FALSE, FALSE)
                   /\ afterCalls' = onAfterRouteChanged(n, f.wrote, FALSE)
           ELSE /\ lastReturn' = ReturnRecord(n, "rejected", nav[n].first, "none",
                                              FALSE, ~nav[n].isRetry)
                /\ UNCHANGED <<route, latestPendingPath, lastWrite, afterCalls>>
        /\ nav' = [nav EXCEPT ![n] = [Settled(n, nav[n].first) EXCEPT !.pageLoad = verdict]]
        /\ UNCHANGED <<isInitialPageLoad, initialPath, firstLoad, lastLoad,
                       latestStarted>>
  /\ UNCHANGED <<clientHashMap, serverVersion, location, history, hash>>
  /\ lastClick' = NoClick
  /\ UNCHANGED nonRouterVars

\* router.ts:120-207  the import of the page module settles: ok = the module
\* is delivered, otherwise the import rejects or the loader returned null
ImportSettle(n, ok) ==
  /\ nav[n].pc = "importing"
  /\ ok => FileExists(nav[n].file)
  /\ LET pendingPath == nav[n].href
         module == Module(nav[n].file)
         accepted == ok /\ IsLatest(latestPendingPath, pendingPath)
         hasDefault == nav[n].file.page \notin NoDefaultPages
         \* router.ts:126  the token is cleared before the component is checked
         latest1 == IF accepted THEN Null ELSE latestPendingPath
         thrown == ~ok \/ (accepted /\ ~hasDefault)
         outcome == IF ~ok THEN "fail"
                    ELSE IF accepted /\ ~hasDefault THEN "nodefault" ELSE "ok"
         first == IF nav[n].isRetry THEN nav[n].first ELSE outcome
         f == Fallback(n, latest1)
     IN IF ~thrown
        THEN /\ latestPendingPath' = latest1
             /\ route' = IF accepted THEN PageRoute(pendingPath, module) ELSE route
             /\ lastWrite' = IF accepted
                              THEN [nav |-> n, kind |-> "page", latest |-> latestStarted,
                                    superseded |-> nav[n].superseded]
                              ELSE lastWrite
             /\ nav' = [nav EXCEPT ![n] = Settled(n, first)]
             /\ lastReturn' = ReturnRecord(n, "resolved", first, outcome, FALSE, FALSE)
             /\ afterCalls' = onAfterRouteChanged(n, accepted, FALSE)
        ELSE IF ~nav[n].isRetry
        THEN \* router.ts:185-187  not a retry: fetch hashmap.json
             /\ latestPendingPath' = latest1
             /\ nav' = [nav EXCEPT ![n].pc = "fetching", ![n].first = first]
             /\ UNCHANGED <<route, lastWrite, lastReturn, afterCalls>>
        ELSE /\ latestPendingPath' = f.latest
             /\ route' = f.route
             /\ lastWrite' = f.write
             /\ nav' = [nav EXCEPT ![n] = Settled(n, first)]
             /\ lastReturn' = ReturnRecord(n, "resolved", first, outcome, FALSE, FALSE)
             /\ afterCalls' = onAfterRouteChanged(n, f.wrote, FALSE)
  /\ UNCHANGED <<isInitialPageLoad, initialPath, clientHashMap,
                 serverVersion, firstLoad, lastLoad, latestStarted,
                 location, history, hash>>
  /\ lastClick' = NoClick
  /\ UNCHANGED nonRouterVars

\* router.ts:186-192  the fetch of hashmap.json settles; on success the map is
\* replaced and loadPage is called again with isRetry = true
FetchSettle(n, ok) ==
  /\ nav[n].pc = "fetching"
  /\ IF ok
     THEN /\ clientHashMap' = serverVersion
          /\ nav' = [nav EXCEPT ![n].pc = "retrying", ![n].isRetry = TRUE]
          /\ UNCHANGED <<route, latestPendingPath, lastWrite, lastReturn, afterCalls>>
     ELSE IF FetchErrorHandler(FALSE) = "swallow"
     THEN LET f == Fallback(n, latestPendingPath)
          IN /\ latestPendingPath' = f.latest
             /\ route' = f.route
             /\ lastWrite' = f.write
             /\ nav' = [nav EXCEPT ![n] = Settled(n, nav[n].first)]
             /\ lastReturn' = ReturnRecord(n, "resolved", nav[n].first,
                                           nav[n].first, TRUE, FALSE)
             /\ afterCalls' = onAfterRouteChanged(n, f.wrote, FALSE)
             /\ UNCHANGED clientHashMap
     ELSE /\ nav' = [nav EXCEPT ![n] = Settled(n, nav[n].first)]
          /\ lastReturn' = ReturnRecord(n, "rejected", nav[n].first,
                                        nav[n].first, TRUE, FALSE)
          /\ UNCHANGED <<route, latestPendingPath, lastWrite, clientHashMap,
                         afterCalls>>
  /\ UNCHANGED <<isInitialPageLoad, initialPath,
                 serverVersion, firstLoad, lastLoad, latestStarted,
                 location, history, hash>>
  /\ lastClick' = NoClick
  /\ UNCHANGED nonRouterVars

\* the site is redeployed while the session is open: every page chunk gets a
\* new hash and the chunks of the previous deployment are gone (router.ts:182-184)
Deploy ==
  /\ serverVersion < MaxDeploy
  /\ serverVersion' = serverVersion + 1
  /\ UNCHANGED <<route, latestPendingPath, nav,
                 isInitialPageLoad, initialPath, clientHashMap, firstLoad,
                 lastLoad, latestStarted, lastWrite, lastReturn,
                 location, history, afterCalls, hash>>
  /\ lastClick' = NoClick
  /\ UNCHANGED nonRouterVars

RouterNext ==
  \/ \E n \in Navs, href \in Paths, verdict \in {"pass", "false"} : Go(n, href, verdict)
  \/ \E n \in Navs, e \in history : PopState(n, e)
  \/ \E n \in Navs, verdict \in {"pass", "false", "throw"} : BeforePageLoad(n, verdict)
  \/ \E n \in Navs, ok \in BOOLEAN : ImportSettle(n, ok)
  \/ \E n \in Navs, ok \in BOOLEAN : FetchSettle(n, ok)
  \/ Deploy

\* a Record<string, string> with no entry
EmptyMap == [k \in {} |-> <<>>]
\* a file, or a snapshot of the map, that has not been written; and one that has
NotWritten == [written |-> FALSE, map |-> EmptyMap]
Written(map) == [written |-> TRUE, map |-> map]
NoSite == [files |-> <<>>]
NoConfig == [pages |-> <<>>]

\* no build runs in the browser session
BuildOff ==
  /\ site = NoSite
  /\ siteConfig = NoConfig
  /\ bpc = "off"
  /\ pageToHashMap = EmptyMap
  /\ nextPage = 0
  /\ render = <<>>
  /\ htmlFiles = {}
  /\ hashmapJson = NotWritten
  /\ buildResult = "pending"
  /\ failedIn = "none"
  /\ mapWrites = {}
  /\ mapAtRender = NotWritten
  /\ mapsSeen = {}
  /\ renderLog = {}

\* a browser session: the router is created, no build runs
SessionInit == RouterInit /\ BuildOff /\ call = NoCall /\ DevOff /\ DataOff

RouterSpec == SessionInit /\ [][RouterNext]_vars

\* a session whose navigations all start with a click on a link or with the
\* back and forward buttons, on one deployment of the site
ClickNext ==
  \/ \E n \in Navs, href \in Paths, h \in Hashes, verdict \in {"pass", "false"} :
       Click(n, href, h, verdict)
  \/ \E n \in Navs, e \in history : PopState(n, e)
  \/ \E n \in Navs, verdict \in {"pass", "false", "throw"} : BeforePageLoad(n, verdict)
  \/ \E n \in Navs, ok \in BOOLEAN : ImportSettle(n, ok)
  \/ \E n \in Navs, ok \in BOOLEAN : FetchSettle(n, ok)

ClickInit == SessionInit

ClickSpec == ClickInit /\ [][ClickNext]_vars

(***************************************************************************)
(* Properties of the router                                                *)
(***************************************************************************)
AllSettled == \A m \in Navs : nav[m].pc \in {"idle", "done"}

\* C1: when the load of /a is initiated, then the load of /b is initiated, and
\* every import succeeds, then once all loads have settled the Route's path,
\* component and data are those of /b (the load initiated last), whichever
\* import resolved first.
C1_OutOfOrderNavigation ==
  \A j \in Navs :
    ( /\ AllSettled
      /\ latestStarted = j
      /\ nav[j].first = "ok"
      /\ \A m \in Navs : nav[m].first \in {"ok", "none"} )
    => route = PageRoute(nav[j].href, Module(pathToFile(nav[j].href, clientHashMap)))

\* the load of /a was superseded by the load of /b while its import was in
\* flight, /b's import resolved first and /a's import resolved after it
C1_Witness ==
  /\ AllSettled
  /\ lastReturn.nav # 0 /\ latestStarted # 0
  /\ lastReturn.nav # latestStarted
  /\ lastReturn.superseded /\ lastReturn.first = "ok"
  /\ nav[latestStarted].first = "ok"
  /\ nav[lastReturn.nav].href # nav[latestStarted].href
  /\ \A m \in Navs : nav[m].first \in {"ok", "none"}
  /\ route = PageRoute(nav[latestStarted].href,
                       Module(pathToFile(nav[latestStarted].href, clientHashMap)))

\* C2: a loadPage call that was superseded by a later loadPage before its
\* module import settled never changes the Route, also when its import fails
\* and the refetch and retry run.  (Stated for the harmful case only: a write
\* of a superseded call whose target is the target of the latest call is let
\* through.)
C2_OnlyLatestMutatesRoute ==
  (lastWrite.nav # 0 /\ lastWrite.superseded)
    => nav[lastWrite.nav].href = nav[lastWrite.latest].href

\* C3: a loadPage call that is not superseded and whose import fails makes at
\* most two import attempts and one hashmap.json fetch, and when the retry
\* fails too the Route ends as the not-found fallback of the target path.
\* (Stated for a call whose target no other navigation of the session has.)
C3_RetryOnceThenNotFound ==
  ( /\ lastReturn.nav # 0
    /\ lastReturn.latest = lastReturn.nav
    /\ lastReturn.first = "fail"
    /\ \A m \in Navs : m # lastReturn.nav => nav[m].href # nav[lastReturn.nav].href )
  => /\ lastReturn.imports <= 2
     /\ lastReturn.fetches <= 1
     /\ (lastReturn.imports = 2 /\ lastReturn.last = "fail")
          => route = NotFoundRoute(nav[lastReturn.nav].href, fallbackComponent)

\* C4: the promise returned by go(href) does not reject because the page
\* module failed to load (first attempt or retry) or because the fetch of
\* hashmap.json failed; it rejects only when a navigation hook throws before
\* the load.
C4_LoadFailureNotPropagated ==
  /\ lastReturn.result = "rejected" => lastReturn.hookThrew
  /\ (lastReturn.first \in {"fail", "nodefault"} \/ lastReturn.fetchFailed)
       => lastReturn.result = "resolved"

\* go resolved although the import, the retry after a refetch, or the fetch failed
C4_Witness ==
  /\ lastReturn.result = "resolved"
  /\ \/ lastReturn.fetchFailed
     \/ lastReturn.imports = 2 /\ lastReturn.last = "fail"

\* C5 as stated: the loader requests the lean variant for the first page load
\* of the session and for every later load whose target is the page that was
\* loaded first, and the full variant for every other load.
C5_LeanByInitialPage ==
  lastLoad.file # NoFile
    => (lastLoad.file.lean <=> (lastLoad.isFirst \/ lastLoad.path = firstLoad.path))

\* C5 amended: the loader requests the lean variant for the first loader call
\* of the session and for every later load whose resolved page file (page and
\* build hash of the hash map in use) is the file resolved by that first call,
\* and the full variant for every other load.
C5_LeanByInitialFile ==
  lastLoad.file # NoFile
    => (lastLoad.file.lean
          <=> (lastLoad.isFirst \/ Module(lastLoad.file) = Module(firstLoad.file)))

\* a later load went back to the file of the first load and requested lean
C5_Witness ==
  /\ lastLoad.file # NoFile /\ ~lastLoad.isFirst
  /\ lastLoad.file.lean
  /\ Module(lastLoad.file) = Module(firstLoad.file)

\* C6: when the module loaded for the latest loadPage has no default export,
\* the Route is set to the not-found fallback of the target path.
C6_NoDefaultExportFallsBack ==
  (lastReturn.nav # 0 /\ lastReturn.last = "nodefault")
    => route = NotFoundRoute(nav[lastReturn.nav].href, fallbackComponent)

\* C18: when onBeforeRouteChange returns false, go(href) cancels the
\* navigation with no effect: no history entry is replaced or pushed, loadPage
\* is not called (no module import, the latest-pending token is unchanged), the
\* Route is unchanged and onAfterRouteChanged is not invoked, in the step of
\* the verdict and ever after.
C18_RouteChangeCancelHasNoEffect ==
  /\ [](\A n \in Navs :
          nav[n].routeChange = "false"
            => /\ nav[n].pc = "done"
               /\ nav[n].pageLoad = "none"
               /\ \A c \in afterCalls : c.nav # n)
  /\ [][\A n \in Navs :
          (nav[n].pc = "idle" /\ nav'[n].routeChange = "false")
            => /\ UNCHANGED <<location, history>>
               /\ UNCHANGED <<latestPendingPath, firstLoad, lastLoad, latestStarted>>
               /\ UNCHANGED <<route, lastWrite>>
               /\ UNCHANGED afterCalls
               /\ \A m \in Navs \ {n} : nav'[m] = nav[m]]_vars

\* go(href) was cancelled by onBeforeRouteChange for a href that is not the
\* current URL (it would have been pushed) while another load was in flight
C18_Witness ==
  \E n \in Navs, m \in Navs :
    /\ nav[n].routeChange = "false"
    /\ nav[n].href # location
    /\ nav[m].pc = "importing"
    /\ latestPendingPath = nav[m].href

\* C19: when onBeforePageLoad returns false, loadPage cancels the load: no
\* module import is started, the latest-pending token is not changed (an
\* earlier in-flight load stays the accepted one) and Route.path,
\* Route.component and Route.data are unchanged.
C19_PageLoadCancelHasNoEffect ==
  [][\A n \in Navs :
       (/\ nav[n].pc \in {"beforeLoad", "retrying"}
        /\ nav'[n].pc # nav[n].pc
        /\ nav'[n].pageLoad = "false")
         => /\ nav'[n].pc = "done"
            /\ UNCHANGED <<firstLoad, lastLoad>>
            /\ UNCHANGED latestPendingPath
            /\ \A m \in Navs :
                 (nav[m].pc = "importing" /\ IsLatest(latestPendingPath, nav[m].href))
                   => (nav'[m].pc = "importing"
                         /\ IsLatest(latestPendingPath', nav'[m].href))
            /\ UNCHANGED route]_vars

\* a load was cancelled by onBeforePageLoad while the load of an earlier
\* navigation to another page is in flight and holds the token
C19_Witness ==
  \E n \in Navs, m \in Navs :
    /\ m < n
    /\ nav[n].pc = "done" /\ nav[n].pageLoad = "false"
    /\ nav[m].pc = "importing"
    /\ nav[m].href # nav[n].href
    /\ latestPendingPath = nav[m].href

\* C20: every invocation of onAfterRouteChanged made by go or by the popstate
\* handler happens after the Route has been updated by that navigation's own
\* loadPage; the hook is not invoked for a navigation whose load was cancelled
\* by onBeforePageLoad or discarded as superseded.
C20_AfterHookFollowsRouteChange ==
  \A c \in afterCalls : c.wrote /\ ~c.cancelled

C21_SamePageClickOnlyMovesHash ==
  [][(lastClick' # NoClick /\ lastClick'.path = location)
       => /\ UNCHANGED <<nav, latestStarted, lastReturn, afterCalls>>
          /\ UNCHANGED <<latestPendingPath, firstLoad, lastLoad>>
          /\ UNCHANGED <<route, lastWrite>>
          /\ UNCHANGED location
          /\ IF lastClick'.hash # hash
             THEN /\ lastClick'.pushed
                  /\ hash' = lastClick'.hash
                  /\ history' = history \cup {Entry(location, lastClick'.hash, "set")}
             ELSE /\ ~lastClick'.pushed
                  /\ UNCHANGED <<hash, history>>]_vars

\* the last click was on a link to the anchor the page already shows, after
\* a click that moved to that anchor, while a load is in flight
C21_Witness ==
  /\ lastClick.path = location
  /\ lastClick.hash = H_s
  /\ ~lastClick.pushed
  /\ Entry(location, H_s, "set") \in history
  /\ \E n \in Navs : nav[n].pc = "importing"

(***************************************************************************)
(* Part II - production build                                              *)
(***************************************************************************)
\* greatest value of buildConcurrency a user config of the model sets
MaxUserConcurrency == 2

\* router.ts:531  userConfig.buildConcurrency ?? 64
DefaultBuildConcurrency == 64

\* the characters of the model's file names, in the order of their char codes
Ascii ==
  <<"-", ".", "/",
    "0", "1", "2", "3", "4", "5", "6", "7", "8", "9",
    "A", "B", "C", "D", "E", "F", "G", "H", "I", "J", "K", "L", "M",
    "N", "O", "P", "Q", "R", "S", "T", "U", "V", "W", "X", "Y", "Z",
    "[", "]", "_",
    "a", "b", "c", "d", "e", "f", "g", "h", "i", "j", "k", "l", "m",
    "n", "o", "p", "q", "r", "s", "t", "u", "v", "w", "x", "y", "z">>

\* rank of a character in the order of the char codes
Code(c) == CHOOSE i \in DOMAIN Ascii : Ascii[i] = c

IsDigit(c) == Code("0") <= Code(c) /\ Code(c) <= Code("9")
IsUpper(c) == Code("A") <= Code(c) /\ Code(c) <= Code("Z")
IsLower(c) == Code("a") <= Code(c) /\ Code(c) <= Code("z")

\* \w of a regular expression
IsWordChar(c) == IsDigit(c) \/ IsUpper(c) \/ IsLower(c) \/ c = "_"

\* String.prototype.toLowerCase
toLowerCase(str) ==
  [i \in 1..Len(str) |->
     IF IsUpper(str[i]) THEN Ascii[Code(str[i]) + (Code("a") - Code("A"))] ELSE str[i]]

\* the order Array.prototype.sort() compares two different strings by
LessStr(a, b) ==
  \E k \in 1..(Len(a) + 1) :
    /\ k <= Len(b)
    /\ \A i \in 1..(k - 1) : a[i] = b[i]
    /\ k = Len(a) + 1 \/ Code(a[k]) < Code(b[k])

RECURSIVE InsertSorted(_, _)
\* x put into the sorted array arr, before the first element that is not
\* less than it
InsertSorted(x, arr) ==
  IF arr = <<>> THEN <<x>>
  ELSE IF LessStr(Head(arr), x) THEN <<Head(arr)>> \o InsertSorted(x, Tail(arr))
  ELSE <<x>> \o arr

sort_unsorted(files) == files

RECURSIVE sort(_)
\* dynamicRoutesPlugin.ts:39-48  the files in the order the glob returned
\* them, sorted by Array.prototype.sort()
sort(files) ==
  IF files = <<>> THEN <<>>
  ELSE InsertSorted(Head(files), sort(Tail(files)))

\* the end of the match of dynamicRouteRE = /\[(\w+?)\]/ that starts at index
\* i of str, or 0 when there is none
DynamicMatchEnd(str, i) ==
  IF i <= Len(str) /\ str[i] = "["
     /\ \E j \in (i + 2)..Len(str) :
          str[j] = "]" /\ \A k \in (i + 1)..(j - 1) : IsWordChar(str[k])
  THEN CHOOSE j \in (i + 2)..Len(str) :
         str[j] = "]" /\ \A k \in (i + 1)..(j - 1) : IsWordChar(str[k])
  ELSE 0

\* dynamicRoutesPlugin.ts:16, :55  dynamicRouteRE.test(file)
dynamicRouteRE(file) == \E i \in 1..Len(file) : DynamicMatchEnd(file, i) # 0

S_undefined == <<"u", "n", "d", "e", "f", "i", "n", "e", "d">>

RECURSIVE ResolvedPathFrom(_, _, _)
\* dynamicRoutesPlugin.ts:265-268  route.replace(dynamicRouteRE, (_, key) =>
\* userConfig.params[key]), from index i of the route file's name on
ResolvedPathFrom(routeFile, i, params) ==
  IF i > Len(routeFile) THEN <<>>
  ELSE LET j == DynamicMatchEnd(routeFile, i)
           key == SubSeq(routeFile, i + 1, j - 1)
       IN IF j = 0
          THEN <<routeFile[i]>> \o ResolvedPathFrom(routeFile, i + 1, params)
          ELSE (IF key \in DOMAIN params THEN params[key] ELSE S_undefined)
               \o ResolvedPathFrom(routeFile, j + 1, params)

LoadPaths_fatal(mod) ==
  IF mod.status = "ok" THEN [outcome |-> "paths", paths |-> mod.paths]
  ELSE [outcome |-> "throw", paths |-> <<>>]

\* dynamicRoutesPlugin.ts:196-263  the paths of one dynamic route file.  The
\* route is skipped with a warning when no paths file exists (:208-216), when
\* loading it fails (:229-234) or when its default export has no paths
\* (:252-260); the paths() of the loader may reject (:263), and then the
\* Promise.all of :281 rejects
LoadPaths(mod) ==
  IF mod.status = "ok" THEN [outcome |-> "paths", paths |-> mod.paths]
  ELSE IF mod.status = "pathsThrows" THEN [outcome |-> "throw", paths |-> <<>>]
  ELSE [outcome |-> "warn", paths |-> <<>>]

RECURSIVE resolveDynamicRoutes(_, _)
\* dynamicRoutesPlugin.ts:187-284  the resolved routes of the dynamic route
\* files, the route files a warning was logged for, and whether the call
\* threw
resolveDynamicRoutes(routes, pathsOf) ==
  IF routes = <<>> THEN [routes |-> <<>>, warned |-> <<>>, threw |-> FALSE]
  ELSE LET routeFile == Head(routes)
           loaded == LoadPaths(pathsOf[routeFile])
           resolved ==
             [i \in 1..Len(loaded.paths) |->
                [path |-> ResolvedPathFrom(routeFile, 1, loaded.paths[i]),
                 route |-> routeFile,
                 params |-> loaded.paths[i]]]
           rest == resolveDynamicRoutes(Tail(routes), pathsOf)
       IN [routes |-> resolved \o rest.routes,
           warned |-> (IF loaded.outcome = "warn" THEN <<routeFile>> ELSE <<>>)
                      \o rest.warned,
           threw |-> loaded.outcome = "throw" \/ rest.threw]

\* rewritesPlugin.ts resolveRewrites: index of the first rule that matches page,
\* 0 when none does (the rules of the model are literal paths)
FirstRule(page, userRewrites) ==
  IF \E r \in 1..Len(userRewrites) : userRewrites[r].from = page
  THEN CHOOSE r \in 1..Len(userRewrites) :
         /\ userRewrites[r].from = page
         /\ \A q \in 1..(r - 1) : userRewrites[q].from # page
  ELSE 0

\* rewritesPlugin.ts resolveRewrites: map (page -> rewritten path) and inv
\* (rewritten path -> page; a later page overwrites an earlier one)
resolveRewrites(pages, userRewrites) ==
  LET matched == {i \in 1..Len(pages) : FirstRule(pages[i], userRewrites) # 0}
      dest(i) == userRewrites[FirstRule(pages[i], userRewrites)].to
  IN [map |-> [p \in {pages[i] : i \in matched} |->
                 userRewrites[FirstRule(p, userRewrites)].to],
      inv |-> [d \in {dest(i) : i \in matched} |->
                 pages[CHOOSE i \in matched :
                         dest(i) = d /\ \A k \in matched : dest(k) = d => k <= i]]]

\* dynamicRoutesPlugin.ts:22-73  (threw: the await of :59 rejected and
\* resolvePages returns nothing)
resolvePages(src) ==
  LET allMarkdownFiles == sort(src.files)
      pages == SelectSeq(allMarkdownFiles, LAMBDA f : ~dynamicRouteRE(f))
      dynamicRouteFiles == SelectSeq(allMarkdownFiles, LAMBDA f : dynamicRouteRE(f))
      resolved == resolveDynamicRoutes(dynamicRouteFiles, src.pathsOf)
      dynamicRoutes == resolved.routes
      allPages == pages \o [i \in 1..Len(dynamicRoutes) |-> dynamicRoutes[i].path]
  IN [pages |-> allPages,
      dynamicRoutes |-> dynamicRoutes,
      rewrites |-> resolveRewrites(allPages, src.rewrites),
      threw |-> resolved.threw]

ResolveBuildConcurrency_ignoreUser(userValue) == DefaultBuildConcurrency

\* router.ts:531  buildConcurrency: userConfig.buildConcurrency ?? 64
\* (userValue is {} when the user config sets none, {n} when it sets n)
ResolveBuildConcurrency(userValue) ==
  IF userValue = {} THEN DefaultBuildConcurrency ELSE CHOOSE n \in userValue : TRUE

\* router.ts:440-539 resolveConfig: the fields of SiteConfig the build reads
resolveConfig(src) ==
  LET r == resolvePages(src)
  IN [pages |-> r.pages,
      dynamicRoutes |-> r.dynamicRoutes,
      rewrites |-> r.rewrites,
      mpa |-> src.mpa,
      buildConcurrency |-> ResolveBuildConcurrency(src.buildConcurrency)]

F_index == S_index \o S_md
F_about == <<"a", "b", "o", "u", "t">> \o S_md
F_post == <<"p", "o", "s", "t", "/", "[", "i", "d", "]">> \o S_md
F_info_about == <<"i", "n", "f", "o", "/">> \o F_about
K_id == <<"i", "d">>

\* the paths loader module of post/[id].md: paths() gives the ids 1 and 2
PostPaths == [status |-> "ok", paths |-> <<(K_id :> <<"1">>), (K_id :> <<"2">>)>>]

\* source trees: index.md, about.md and post/[id].md; the same with about.md
\* rewritten to info/about.md; a site with a 404.md of its own
ExampleTree ==
  [files |-> <<F_post, F_index, F_about>>, pathsOf |-> (F_post :> PostPaths),
   rewrites |-> <<>>]
RewriteTree ==
  [files |-> <<F_post, F_index, F_about>>, pathsOf |-> (F_post :> PostPaths),
   rewrites |-> <<[from |-> F_about, to |-> F_info_about]>>]
Custom404Tree ==
  [files |-> <<F_index, S_404md>>, pathsOf |-> EmptyMap, rewrites |-> <<>>]

Trees == {ExampleTree, RewriteTree, Custom404Tree}

\* the values of userConfig.buildConcurrency: none, or 1..MaxUserConcurrency
UserConcurrency == {{}} \cup {{n} : n \in 1..MaxUserConcurrency}

Sites ==
  {[files |-> t.files, pathsOf |-> t.pathsOf, rewrites |-> t.rewrites,
    mpa |-> m, buildConcurrency |-> c] :
     t \in Trees, m \in BOOLEAN, c \in UserConcurrency}

\* shared.ts slash
slash(p) == [i \in 1..Len(p) |-> IF p[i] = "\\" THEN "/" ELSE p[i]]

\* str.replace(/\//g, '_')
SlashToUnderscore(str) == [i \in 1..Len(str) |-> IF str[i] = "/" THEN "_" ELSE str[i]]

\* build.ts:143 and bundle.ts:68  config.rewrites.map[page] || page
RewriteOf(cfg, page) ==
  IF page \in DOMAIN cfg.rewrites.map /\ cfg.rewrites.map[page] # <<>>
  THEN cfg.rewrites.map[page] ELSE page

\* part_002:275  INVALID_CHAR_REGEX (the control characters, the double
\* quote and the backtick are left out)
InvalidChars ==
  {"#", "$", "&", "*", "+", ",", ":", ";", "<", "=", ">", "?",
   "[", "]", "^", "{", "|", "}"}

\* part_002:278  DRIVE_LETTER_REGEX  /^[a-z]:/i
DriveLetter(name) ==
  IF Len(name) >= 2 /\ name[2] = ":" /\ (\E i \in DOMAIN Ascii : Ascii[i] = name[1])
     /\ (IsUpper(name[1]) \/ IsLower(name[1]))
  THEN SubSeq(name, 1, 2) ELSE <<>>

\* the start of the last path segment of str
LastSegmentStart(str) ==
  LET slashes == {i \in 1..Len(str) : str[i] = "/"}
  IN IF slashes = {} THEN 1
     ELSE 1 + (CHOOSE i \in slashes : \A j \in slashes : j <= i)

\* str.replace(/(^|\/)_+(?=[^/]*$)/, '$1'): the first run of underscores that
\* starts the string or follows a '/' and has no '/' after it is dropped
StripLeadingUnderscores(str) ==
  LET first == LastSegmentStart(str)
      run == {k \in first..Len(str) : \A j \in first..k : str[j] = "_"}
  IN SubSeq(str, 1, first - 1) \o SubSeq(str, first + Cardinality(run), Len(str))

\* part_002:286-299  sanitizeFileName
sanitizeFileName(name) ==
  LET driveLetter == DriveLetter(name)
      rest == SubSeq(name, Len(driveLetter) + 1, Len(name))
  IN driveLetter
     \o StripLeadingUnderscores(
          [i \in 1..Len(rest) |-> IF rest[i] \in InvalidChars THEN "_" ELSE rest[i]])

\* the content hash rollup puts into the file name of a chunk
Hash(ssr, file) == <<IF ssr THEN "s" ELSE "c", "#">> \o file

\* bundle.ts:68-69  the name of the input entry of a page file
InputName(cfg, file) == SlashToUnderscore(slash(RewriteOf(cfg, file)))

RECURSIVE InputMap(_, _)
\* bundle.ts:63-70  the input object after the first k pages: an assignment
\* to a name already present replaces the file of that entry in its place
InputMap(cfg, k) ==
  IF k = 0 THEN <<>>
  ELSE LET input == InputMap(cfg, k - 1)
           file == cfg.pages[k]
           name == InputName(cfg, file)
       IN IF \E i \in 1..Len(input) : input[i].name = name
          THEN [i \in 1..Len(input) |->
                  IF input[i].name = name THEN [name |-> name, file |-> file]
                  ELSE input[i]]
          ELSE Append(input, [name |-> name, file |-> file])

\* bundle.ts:63-70, :128  the chunk of a page entry: named by the name of its
\* input entry, which output.sanitizeFileName sanitizes
PageChunk(cfg, ssr, file) ==
  [type |-> "chunk", isEntry |-> TRUE,
   name |-> sanitizeFileName(InputName(cfg, file)),
   facadeModuleId |-> file,
   hash |-> Hash(ssr, file)]

\* the output of a vite build of the site: the app entry, one chunk per entry
\* of the input object and the stylesheet
Bundle(cfg, ssr) ==
  <<[type |-> "chunk", isEntry |-> TRUE, name |-> <<"a", "p", "p">>,
     facadeModuleId |-> <<"a", "p", "p", ".", "j", "s">>,
     hash |-> Hash(ssr, <<"a", "p", "p">>)]>>
  \o [i \in 1..Len(InputMap(cfg, Len(cfg.pages))) |->
        PageChunk(cfg, ssr, InputMap(cfg, Len(cfg.pages))[i].file)]
  \o <<[type |-> "asset", isEntry |-> FALSE, name |-> <<"s", "t", "y", "l", "e">>,
        facadeModuleId |-> <<>>, hash |-> Hash(ssr, <<"c", "s", "s">>)]>>

\* bundle.ts:360-368
isPageChunk(chunk) ==
  /\ chunk.type = "chunk"
  /\ chunk.isEntry
  /\ chunk.facadeModuleId # <<>>
  /\ EndsWith(chunk.facadeModuleId, S_md)

Put(map, key, value) ==
  [k \in DOMAIN map \cup {key} |-> IF k = key THEN value ELSE map[k]]

RECURSIVE PageHashes(_, _)
\* bundle.ts:743-749  the loop over the chunks of the bundle
PageHashes(chunks, map) ==
  IF chunks = <<>> THEN map
  ELSE PageHashes(Tail(chunks),
                  IF isPageChunk(Head(chunks))
                  THEN Put(map, toLowerCase(Head(chunks).name), Head(chunks).hash)
                  ELSE map)

generateBundle_ssrToo(ssr, chunks, map) ==
  [map |-> PageHashes(chunks, map),
   wrote |-> \E i \in 1..Len(chunks) : isPageChunk(chunks[i])]

\* bundle.ts:727-766  generateBundle: the map after it, and whether it wrote
generateBundle(ssr, chunks, map) ==
  IF ssr
  THEN [map |-> map, wrote |-> FALSE]
  ELSE [map |-> PageHashes(chunks, map),
        wrote |-> \E i \in 1..Len(chunks) : isPageChunk(chunks[i])]

task_swallow(ok) == TRUE

\* task.ts:12-28  task() fulfils when its task does and rethrows its error
task(ok) == ok

PMapInput_pagesOnly(cfg) == cfg.pages

\* build.ts:137  ['404.md', ...siteConfig.pages]
PMapInput(cfg) == <<S_404md>> \o cfg.pages

\* render.ts:213  page.replace(/\.md$/, '.html')
HtmlFileName(page) ==
  IF EndsWith(page, S_md) THEN DropLast(page, Len(S_md)) \o S_html ELSE page

InFlightRenders == {i \in DOMAIN render : render[i] = "rendering"}

BuildInit ==
  /\ site \in Sites
  /\ siteConfig = NoConfig
  /\ bpc = "start"
  /\ pageToHashMap = EmptyMap
  /\ nextPage = 0
  /\ render = <<>>
  /\ htmlFiles = {}
  /\ hashmapJson = NotWritten
  /\ buildResult = "pending"
  /\ failedIn = "none"
  /\ mapWrites = {}
  /\ mapAtRender = NotWritten
  /\ mapsSeen = {}
  /\ renderLog = {}

\* history: the first step of the build that threw
FirstFailure(step) == IF failedIn = "none" THEN step ELSE failedIn

\* build.ts:24-50  build(): the config is resolved; bundle() starts with the
\* client build, or with the server build in MPA mode (bundle.ts:193-196)
ResolveSiteConfig ==
  /\ bpc = "start"
  /\ siteConfig' = resolveConfig(site)
  /\ bpc' = IF site.mpa THEN "server" ELSE "client"
  /\ UNCHANGED <<site, pageToHashMap, nextPage, render, htmlFiles, hashmapJson,
                 buildResult, failedIn, mapWrites, mapAtRender, mapsSeen, renderLog>>
  /\ UNCHANGED nonBuildVars

\* bundle.ts:194-196  the client build of vite; its generateBundle hook fills
\* the map; an error of the build leaves task() (task.ts:20-24) and bundle()
\* and reaches the finally block of build()
ClientBuild(ok) ==
  /\ bpc = "client"
  /\ LET g == generateBundle(FALSE, Bundle(siteConfig, FALSE), pageToHashMap)
     IN /\ pageToHashMap' = IF ok THEN g.map ELSE pageToHashMap
        /\ mapWrites' = IF ok /\ g.wrote THEN mapWrites \cup {"client"} ELSE mapWrites
  /\ bpc' = IF task(ok) THEN "server" ELSE "finallyErr"
  /\ failedIn' = IF ok THEN failedIn ELSE FirstFailure("client")
  /\ UNCHANGED <<site, siteConfig, nextPage, render, htmlFiles, hashmapJson,
                 buildResult, mapAtRender, mapsSeen, renderLog>>
  /\ UNCHANGED nonBuildVars

\* bundle.ts:197-199  the server build of vite
ServerBuild(ok) ==
  /\ bpc = "server"
  /\ LET g == generateBundle(TRUE, Bundle(siteConfig, TRUE), pageToHashMap)
     IN /\ pageToHashMap' = IF ok THEN g.map ELSE pageToHashMap
        /\ mapWrites' = IF ok /\ g.wrote THEN mapWrites \cup {"server"} ELSE mapWrites
  /\ bpc' = IF task(ok)
            THEN (IF siteConfig.mpa THEN "mpa" ELSE "render")
            ELSE "finallyErr"
  /\ failedIn' = IF ok THEN failedIn ELSE FirstFailure("server")
  /\ UNCHANGED <<site, siteConfig, nextPage, render, htmlFiles, hashmapJson,
                 buildResult, mapAtRender, mapsSeen, renderLog>>
  /\ UNCHANGED nonBuildVars

\* bundle.ts:204-228  MPA mode: the assets are copied and the client scripts
\* are bundled by buildMPAClient
BuildMPAClient(ok) ==
  /\ bpc = "mpa"
  /\ bpc' = IF ok THEN "render" ELSE "finallyErr"
  /\ failedIn' = IF ok THEN failedIn ELSE FirstFailure("mpa")
  /\ UNCHANGED <<site, siteConfig, pageToHashMap, nextPage, render, htmlFiles,
                 hashmapJson, buildResult, mapWrites, mapAtRender, mapsSeen, renderLog>>
  /\ UNCHANGED nonBuildVars

\* build.ts:66-135  the render function of the server bundle is imported and
\* the 'rendering pages' task starts: the metadata script is generated from
\* the map and pMap gets its input
StartRender(ok) ==
  /\ bpc = "render"
  /\ IF ok
     THEN /\ bpc' = "pMap"
          /\ mapAtRender' = Written(pageToHashMap)
          /\ render' = [i \in 1..Len(PMapInput(siteConfig)) |-> "idle"]
          /\ nextPage' = 1
          /\ UNCHANGED failedIn
     ELSE /\ bpc' = "finallyErr"
          /\ failedIn' = FirstFailure("import")
          /\ UNCHANGED <<mapAtRender, render, nextPage>>
  /\ UNCHANGED <<site, siteConfig, pageToHashMap, htmlFiles, hashmapJson,
                 buildResult, mapWrites, mapsSeen, renderLog>>
  /\ UNCHANGED nonBuildVars

\* build.ts:136-154  pMap hands the next page to the mapper while fewer than
\* `concurrency` mappers are in flight; renderPage runs up to its first await
\* (render.ts:55)
MapperStart ==
  /\ bpc = "pMap"
  /\ nextPage <= Len(render)
  /\ Cardinality(InFlightRenders) < siteConfig.buildConcurrency
  /\ render' = [render EXCEPT ![nextPage] = "rendering"]
  /\ nextPage' = nextPage + 1
  /\ UNCHANGED <<site, siteConfig, bpc, pageToHashMap, htmlFiles, hashmapJson,
                 buildResult, failedIn, mapWrites, mapAtRender, mapsSeen, renderLog>>
  /\ UNCHANGED nonBuildVars

\* render.ts:67-70  the server-built module of a page is the chunk the
\* server build emitted for a page of siteConfig.pages with that name
ServerModuleExists(cfg, page) ==
  \E k \in 1..Len(cfg.pages) :
    SlashToUnderscore(RewriteOf(cfg, cfg.pages[k])) = SlashToUnderscore(page)

LoadErrorHandler_substituteAll(page) ==
  [thrown |-> FALSE, hasCustom404 |-> FALSE, pageData |-> notFoundPageData]

\* render.ts:81-88  the catch block around the import of the page's module
LoadErrorHandler(page) ==
  IF page = S_404md
  THEN [thrown |-> FALSE, hasCustom404 |-> FALSE, pageData |-> notFoundPageData]
  ELSE [thrown |-> TRUE, hasCustom404 |-> TRUE, pageData |-> notFoundPageData]

\* render.ts:67-88  pageData and hasCustom404 after the import of the page's
\* server-built module succeeded (loaded) or threw
LoadPageData(page, loaded) ==
  IF loaded
  THEN [thrown |-> FALSE, hasCustom404 |-> TRUE,
        pageData |-> [isNotFound |-> FALSE, relativePath |-> page,
                      module |-> NullComponent]]
  ELSE LoadErrorHandler(page)

\* render.ts:64-65, :99-112  the preload links of the page: none in MPA mode
\* and none for the built-in 404 page, else the imports of the page, of which
\* the model keeps the page's own lean chunk
PreloadLinks(cfg, page, hasCustom404, map) ==
  IF cfg.mpa \/ (~hasCustom404 /\ page = S_404md) THEN {}
  ELSE LET pageName == sanitizeFileName(SlashToUnderscore(page))
       IN {[pageName |-> pageName,
            pageHash |-> IF toLowerCase(pageName) \in DOMAIN map
                         THEN map[toLowerCase(pageName)] ELSE S_undefined]}

\* render.ts:55-227  the renderPage of input i settles: it has imported the
\* server-built module of its page (loaded) or the import threw, it has read
\* the hash of its page from the map and written its HTML file, or it threw
\* (ok is false when a step other than the import throws).  The first error
\* rejects pMap, and task() rethrows it (task.ts:20-24); the mappers in
\* flight go on.  When the last mapper is done pMap resolves.
RenderPage(i, loaded, ok) ==
  /\ i \in DOMAIN render
  /\ render[i] = "rendering"
  /\ LET page == RewriteOf(siteConfig, PMapInput(siteConfig)[i])
         allDone == nextPage > Len(render)
                    /\ \A k \in DOMAIN render : k # i => render[k] = "done"
         data == LoadPageData(page, loaded)
         written == ok /\ ~data.thrown
     IN /\ loaded => ServerModuleExists(siteConfig, page)
        /\ renderLog' = renderLog \cup
             {[input |-> i, page |-> page, loaded |-> loaded, ok |-> ok,
               rejected |-> ~written,
               pageData |-> data.pageData,
               hasCustom404 |-> data.hasCustom404,
               preloadLinks |-> PreloadLinks(siteConfig, page, data.hasCustom404,
                                             pageToHashMap)]}
        /\ IF written
           THEN /\ render' = [render EXCEPT ![i] = "done"]
                /\ mapsSeen' = mapsSeen \cup {pageToHashMap}
                /\ htmlFiles' = htmlFiles \cup {HtmlFileName(page)}
                /\ bpc' = IF bpc = "pMap" /\ allDone THEN "writeHashmap" ELSE bpc
                /\ UNCHANGED failedIn
           ELSE /\ render' = [render EXCEPT ![i] = "failed"]
                /\ failedIn' = FirstFailure("render")
                /\ bpc' = IF bpc = "pMap"
                          THEN (IF task(FALSE) THEN "writeHashmap" ELSE "finallyErr")
                          ELSE bpc
                /\ UNCHANGED <<mapsSeen, htmlFiles>>
  /\ UNCHANGED <<site, siteConfig, pageToHashMap, nextPage, hashmapJson,
                 buildResult, mapWrites, mapAtRender>>
  /\ UNCHANGED nonBuildVars

\* build.ts:159-162  fs.writeJSONSync(hashmap.json, pageToHashMap)
WriteHashmap ==
  /\ bpc = "writeHashmap"
  /\ hashmapJson' = Written(pageToHashMap)
  /\ bpc' = "finallyOk"
  /\ UNCHANGED <<site, siteConfig, pageToHashMap, nextPage, render, htmlFiles,
                 buildResult, failedIn, mapWrites, mapAtRender, mapsSeen, renderLog>>
  /\ UNCHANGED nonBuildVars

\* build.ts:163-166  finally: vue is unlinked and the temp dir removed; an
\* error of the try block rejects build()
Finally ==
  /\ bpc \in {"finallyOk", "finallyErr"}
  /\ IF bpc = "finallyErr"
     THEN bpc' = "done" /\ buildResult' = "rejected"
     ELSE bpc' = "buildEnd" /\ UNCHANGED buildResult
  /\ UNCHANGED <<site, siteConfig, pageToHashMap, nextPage, render, htmlFiles,
                 hashmapJson, failedIn, mapWrites, mapAtRender, mapsSeen, renderLog>>
  /\ UNCHANGED nonBuildVars

\* build.ts:168-175  the sitemap is generated and the buildEnd hook called
BuildEnd(ok) ==
  /\ bpc = "buildEnd"
  /\ bpc' = "done"
  /\ buildResult' = IF ok THEN "resolved" ELSE "rejected"
  /\ failedIn' = IF ok THEN failedIn ELSE FirstFailure("buildEnd")
  /\ UNCHANGED <<site, siteConfig, pageToHashMap, nextPage, render, htmlFiles,
                 hashmapJson, mapWrites, mapAtRender, mapsSeen, renderLog>>
  /\ UNCHANGED nonBuildVars

BuildNext ==
  \/ ResolveSiteConfig
  \/ \E ok \in BOOLEAN : ClientBuild(ok)
  \/ \E ok \in BOOLEAN : ServerBuild(ok)
  \/ \E ok \in BOOLEAN : BuildMPAClient(ok)
  \/ \E ok \in BOOLEAN : StartRender(ok)
  \/ MapperStart
  \/ \E i \in 1..(Len(render)), loaded \in BOOLEAN, ok \in BOOLEAN :
       RenderPage(i, loaded, ok)
  \/ WriteHashmap
  \/ Finally
  \/ \E ok \in BOOLEAN : BuildEnd(ok)

\* a run of build(): no browser session runs during the build
BuildRunInit == BuildInit /\ RouterInit /\ call = NoCall /\ DevOff /\ DataOff

BuildSpec == BuildRunInit /\ [][BuildNext]_vars

(***************************************************************************)
(* Properties of the build                                                 *)
(***************************************************************************)
\* C7: every write to pageToHashMap happens in the generateBundle hook of the
\* client build, before the render phase starts; the map does not change
\* during or after the render phase, so every renderPage and hashmap.json see
\* the map the render phase started with.
C7_MapWriteOnceThenRead ==
  /\ mapWrites \subseteq {"client"}
  /\ mapAtRender.written => pageToHashMap = mapAtRender.map
  /\ mapsSeen \subseteq {mapAtRender.map}
  /\ hashmapJson.written => hashmapJson.map = mapAtRender.map

\* the client build has filled the map, pages were rendered from it and
\* hashmap.json was written
C7_Witness ==
  /\ "client" \in mapWrites
  /\ pageToHashMap # EmptyMap
  /\ mapsSeen = {pageToHashMap}
  /\ hashmapJson = Written(pageToHashMap)

\* C8: when the client or the server bundler invocation fails, build() rejects
\* and the build is aborted: no renderPage call is made, no HTML file is
\* written and hashmap.json is not written.
C8_BundleFailureAborts ==
  failedIn \in {"client", "server", "mpa"}
    => /\ bpc \in {"finallyErr", "done"}
       /\ bpc = "done" => buildResult = "rejected"
       /\ \A i \in DOMAIN render : render[i] = "idle"
       /\ htmlFiles = {}
       /\ ~hashmapJson.written

\* the server build failed after the client build had filled the map, and
\* build() has rejected
C8_Witness ==
  /\ failedIn = "server"
  /\ pageToHashMap # EmptyMap
  /\ bpc = "done"
  /\ buildResult = "rejected"

S_404html == <<"4", "0", "4">> \o S_html

\* index.html, about.html, post/1.html, post/2.html and 404.html
ExampleHtmlFiles ==
  {S_index \o S_html,
   <<"a", "b", "o", "u", "t">> \o S_html,
   <<"p", "o", "s", "t", "/", "1">> \o S_html,
   <<"p", "o", "s", "t", "/", "2">> \o S_html,
   S_404html}

IsExampleSite == site.files = ExampleTree.files /\ site.rewrites = <<>>

\* C9: a successful build has rendered every input once and has written
\* exactly the HTML files of the resolved pages (static pages and expanded
\* dynamic routes, at the rewritten path when a rewrite applies) and
\* 404.html; the site with index.md, about.md and post/[id].md with the ids 1
\* and 2 yields exactly index.html, about.html, post/1.html, post/2.html and
\* 404.html.
C9_OneHtmlPerPage ==
  buildResult = "resolved"
    => /\ \A i \in DOMAIN render : render[i] = "done"
       /\ htmlFiles =
            {HtmlFileName(RewriteOf(siteConfig, siteConfig.pages[i])) :
               i \in 1..Len(siteConfig.pages)} \cup {S_404html}
       /\ IsExampleSite => htmlFiles = ExampleHtmlFiles

\* the build of the example site has succeeded with its five HTML files
C9_Witness ==
  /\ buildResult = "resolved"
  /\ IsExampleSite
  /\ Cardinality(htmlFiles) = Len(siteConfig.pages) + 1
  /\ htmlFiles = ExampleHtmlFiles

\* the pMap of build.ts:136-154 has resolved
RenderPhaseCompleted ==
  \/ bpc \in {"writeHashmap", "finallyOk", "buildEnd"}
  \/ bpc = "done" /\ failedIn \in {"none", "buildEnd"}

\* C10: at every moment the number of renderPage calls in flight is at most
\* the buildConcurrency of the user config (64 when it sets none), and the
\* render phase completes only after the renderPage of every page (and of
\* 404.md) has completed.
C10_BoundedRenderFanOut ==
  /\ Cardinality(InFlightRenders) <=
       (IF site.buildConcurrency = {} THEN DefaultBuildConcurrency
        ELSE CHOOSE n \in site.buildConcurrency : TRUE)
  /\ RenderPhaseCompleted
       => /\ Len(render) = Len(siteConfig.pages) + 1
          /\ \A i \in DOMAIN render : render[i] = "done"

\* the fan-out is at its limit of two renderPage calls while pages wait
C10_Witness ==
  /\ site.buildConcurrency = {2}
  /\ Cardinality(InFlightRenders) = 2
  /\ bpc = "pMap"
  /\ nextPage <= Len(render)

\* the settled renderPage calls whose import of the server-built module threw
LoadFailures == {e \in renderLog : ~e.loaded}

\* C14: when the import of a page's server-built module throws, renderPage of
\* 404.md goes on with the built-in not-found page data, without a custom 404
\* page and without preload links, and writes 404.html (unless another step
\* throws); renderPage of any other page rejects and writes no HTML file for
\* the page.
C14_LoadErrorFatalExcept404 ==
  \A e \in LoadFailures :
    IF e.page = S_404md
    THEN /\ e.pageData = notFoundPageData
         /\ ~e.hasCustom404
         /\ e.preloadLinks = {}
         /\ e.ok => (~e.rejected /\ render[e.input] = "done"
                     /\ S_404html \in htmlFiles)
    ELSE /\ e.rejected
         /\ render[e.input] = "failed"
         /\ HtmlFileName(e.page) \notin htmlFiles

\* in a build that is not in MPA mode (where pages have preload links) the
\* import threw for 404.md, which was written, and for another page
C14_Witness ==
  /\ ~site.mpa
  /\ \E e \in LoadFailures : e.page = S_404md /\ e.ok /\ S_404html \in htmlFiles
  /\ \E e \in LoadFailures : e.page # S_404md /\ e.rejected
  /\ \E e \in renderLog : e.loaded /\ e.preloadLinks # {}

\* C22: within the render fan-out each renderPage touches only files scoped
\* to its own page: no two render tasks of one build write the same output
\* file, for every resolved page set (a user-provided 404.md included).
C22_RenderTasksWriteDistinctFiles ==
  \A r1 \in renderLog, r2 \in renderLog :
    (r1.input # r2.input /\ ~r1.rejected /\ ~r2.rejected)
      => HtmlFileName(r1.page) # HtmlFileName(r2.page)

(***************************************************************************)
(* Part III - the node-side functions called on their own: the content     *)
(* resolver (dynamicRoutesPlugin.ts, rewritesPlugin.ts), createTitle       *)
(* (shared.ts) and the dead-link check of the markdown renderer.           *)
(***************************************************************************)
\* number of rules of userConfig.rewrites
MaxRules == 2

F_guide == <<"g", "u", "i", "d", "e">> \o S_md

\* pages and rewrite targets of the calls of resolveRewrites
RewritePaths == {F_index, F_about, F_guide}

\* the rule lists: up to MaxRules rules from a page path to a target path
RewriteRule == [from : RewritePaths, to : RewritePaths]
RuleLists == UNION {[1..n -> RewriteRule] : n \in 0..MaxRules}

Range(f) == {f[x] : x \in DOMAIN f}

\* the arrays a glob can return for a directory that holds some of the files:
\* the files found, each once, in any order
Globs(files) ==
  {g \in UNION {[1..n -> files] : n \in 0..Cardinality(files)} :
     \A i, j \in DOMAIN g : g[i] = g[j] => i = j}

\* the page lists resolvePages hands to resolveRewrites: distinct, sorted
PageLists == {sort(g) : g \in Globs(RewritePaths)}

\* rewritesPlugin.ts:11-45  resolveRewrites(pages, userConfig.rewrites)
CallResolveRewrites(pages, userRewrites) ==
  /\ call = NoCall
  /\ call' = [fn |-> "resolveRewrites",
              args |-> [pages |-> pages, rewrites |-> userRewrites],
              result |-> resolveRewrites(pages, userRewrites)]
  /\ UNCHANGED nonResolverVars

\* C11: after resolveRewrites, every page that matches a rule is sent by map
\* to a path that inv sends back to the page (inv[map[p]] = p), and a page
\* that matches no rule has no entry in map and is not a value of inv.
C11_RewriteRoundTrip ==
  call.fn = "resolveRewrites"
    => LET r == call.result
       IN \A p \in Range(call.args.pages) :
            IF FirstRule(p, call.args.rewrites) # 0
            THEN /\ p \in DOMAIN r.map
                 /\ r.map[p] \in DOMAIN r.inv
                 /\ r.inv[r.map[p]] = p
            ELSE /\ p \notin DOMAIN r.map
                 /\ p \notin Range(r.inv)

F_team == <<"t", "e", "a", "m">> \o S_md
F_tag == <<"t", "a", "g", "/", "[", "t", "]">> \o S_md
K_t == <<"t">>

\* what stands next to a dynamic route file: a paths file whose paths() gives
\* a list of params, no paths file, a paths file that fails to load, one
\* whose default export has no paths, one whose paths() rejects
NoPaths(status) == [status |-> status, paths |-> <<>>]
SkippedStatus == {"missing", "loadError", "noPathsExport"}
PostModules ==
  {PostPaths,
   [status |-> "ok", paths |-> <<(K_id :> <<"2">>), (K_id :> <<"1">>)>>],
   NoPaths("pathsThrows")} \cup {NoPaths(st) : st \in SkippedStatus}
TagModules ==
  {[status |-> "ok", paths |-> <<(K_t :> <<"x">>)>>]}
    \cup {NoPaths(st) : st \in SkippedStatus}

\* the source directories resolvePages is called on: some of about.md,
\* team.md, post/[id].md and tag/[t].md, found by the glob in any order
ResolverTrees ==
  {[files |-> g, pathsOf |-> (F_post :> pm) @@ (F_tag :> tm), rewrites |-> <<>>] :
     g \in Globs({F_about, F_team, F_post, F_tag}),
     pm \in PostModules, tm \in TagModules}

\* dynamicRoutesPlugin.ts:22-73  resolvePages(srcDir, userConfig, logger)
CallResolvePages(src) ==
  /\ call = NoCall
  /\ call' = [fn |-> "resolvePages", args |-> src, result |-> resolvePages(src)]
  /\ UNCHANGED nonResolverVars

\* dynamicRoutesPlugin.ts:187-284  resolveDynamicRoutes(srcDir, routes, logger)
CallResolveDynamicRoutes(routes, pathsOf) ==
  /\ call = NoCall
  /\ call' = [fn |-> "resolveDynamicRoutes",
              args |-> [routes |-> routes, pathsOf |-> pathsOf],
              result |-> resolveDynamicRoutes(routes, pathsOf)]
  /\ UNCHANGED nonResolverVars

IsSorted(arr) == \A i, j \in DOMAIN arr : i < j => ~LessStr(arr[j], arr[i])

\* the same files, returned by the glob in another order
Reorderings(files) == {g \in Globs(Range(files)) : Len(g) = Len(files)}

\* resolvePages gives the same page list for every order of the glob
StableAcrossRuns ==
  \A g \in Reorderings(call.args.files) :
    resolvePages([call.args EXCEPT !.files = g]).pages = call.result.pages

\* C12 (as stated): the page list resolvePages returns is sorted
\* lexicographically and is the same list on every run with the same inputs.
C12_PagesSortedAndStable ==
  (call.fn = "resolvePages" /\ ~call.result.threw)
    => IsSorted(call.result.pages) /\ StableAcrossRuns

\* C12 (amended): the page list is the same on every run with the same
\* inputs; it holds the static pages, sorted, followed by the expanded
\* dynamic routes in the sorted order of their route files and, for one
\* route file, in the order its paths loader gives them.
C12_StaticSortedThenRoutes ==
  (call.fn = "resolvePages" /\ ~call.result.threw)
    => LET pages == call.result.pages
           routes == call.result.dynamicRoutes
           static == {f \in Range(call.args.files) : ~dynamicRouteRE(f)}
           n == Cardinality(static)
       IN /\ StableAcrossRuns
          /\ Len(pages) = n + Len(routes)
          /\ Range(SubSeq(pages, 1, n)) = static
          /\ IsSorted(SubSeq(pages, 1, n))
          /\ \A i \in DOMAIN routes : pages[n + i] = routes[i].path
          /\ IsSorted([i \in DOMAIN routes |-> routes[i].route])
          /\ \A f \in Range(call.args.files) \ static :
               LET own == SelectSeq(routes, LAMBDA r : r.route = f)
               IN [i \in DOMAIN own |-> own[i].params]
                    = LoadPaths(call.args.pathsOf[f]).paths

\* the glob returned team.md before about.md, and the list holds static pages
\* and expanded routes and is not sorted as a whole
C12_Witness ==
  /\ call.fn = "resolvePages"
  /\ ~call.result.threw
  /\ ~IsSorted(call.args.files)
  /\ call.result.dynamicRoutes # <<>>
  /\ F_about \in Range(call.result.pages) /\ F_team \in Range(call.result.pages)
  /\ ~IsSorted(call.result.pages)

\* C13: when a dynamic route file has no paths file, or its paths file fails
\* to load, or the loaded module exports no paths, resolveDynamicRoutes logs
\* a warning for it, returns no page of it, does not throw, and returns the
\* expanded pages of every other route.
C13_RouteFailuresNonFatal ==
  (/\ call.fn = "resolveDynamicRoutes"
   /\ \A f \in Range(call.args.routes) :
        call.args.pathsOf[f].status \in SkippedStatus \cup {"ok"})
    => LET r == call.result
       IN /\ ~r.threw
          /\ \A f \in Range(call.args.routes) :
               LET own == SelectSeq(r.routes, LAMBDA x : x.route = f)
               IN IF call.args.pathsOf[f].status \in SkippedStatus
                  THEN f \in Range(r.warned) /\ own = <<>>
                  ELSE /\ f \notin Range(r.warned)
                       /\ [i \in DOMAIN own |-> own[i].path]
                            = [i \in DOMAIN call.args.pathsOf[f].paths |->
                                 ResolvedPathFrom(f, 1, call.args.pathsOf[f].paths[i])]

\* post/[id].md has no usable paths file, tag/[t].md is expanded
C13_Witness ==
  /\ call.fn = "resolveDynamicRoutes"
  /\ call.args.routes = <<F_post, F_tag>>
  /\ call.args.pathsOf[F_post].status \in SkippedStatus
  /\ call.args.pathsOf[F_tag].status = "ok"
  /\ call.result.warned = <<F_post>>
  /\ Len(call.result.routes) = 1
  /\ ~call.result.threw

\* number of links of the page markdownToVue renders
MaxLinks == 2

U_about == <<"/", "a", "b", "o", "u", "t">>
U_about_html == U_about \o S_html
U_missing == <<"/", "m", "i", "s", "s", "i", "n", "g">>
U_missing_html == U_missing \o S_html
U_missing_top == U_missing \o <<"#", "t", "o", "p">>
U_guide_dir == <<"/", "g", "u", "i", "d", "e", "/">>
U_brochure == <<"/", "b", "r", "o", "c", "h", "u", "r", "e">>
U_manual_pdf == <<"/", "m", "a", "n", "u", "a", "l", ".", "p", "d", "f">>
U_info_about == <<"/">> \o DropLast(F_info_about, 3)

\* the intra-site links of the rendered page (env.links)
LinkUrls ==
  {U_about, U_about_html, U_missing, U_missing_html, U_missing_top,
   U_guide_dir, U_brochure, U_manual_pdf, U_info_about}
LinkLists == UNION {[1..n -> LinkUrls] : n \in 1..MaxLinks}

\* index of the first character of str that is in chars, 0 when there is none
FirstOf(str, chars) ==
  IF \E i \in 1..Len(str) : str[i] \in chars
  THEN CHOOSE i \in 1..Len(str) :
         str[i] \in chars /\ \A k \in 1..(i - 1) : str[k] \notin chars
  ELSE 0

\* url.replace(/[?#].*$/, ''), also the pathname of new URL(url, 'http://a.com')
\* for a url that starts with a slash
StripQueryHash(url) ==
  IF FirstOf(url, {"?", "#"}) = 0 THEN url
  ELSE SubSeq(url, 1, FirstOf(url, {"?", "#"}) - 1)

\* shared.ts:310-343  some of the known extensions of files that are no pages
KnownExtensions == {<<"p", "d", "f">>, <<"p", "n", "g">>, <<"z", "i", "p">>}

\* filename.split('.').pop()
LastDotPart(filename) ==
  LET dots == {i \in 1..Len(filename) : filename[i] = "."}
  IN IF dots = {} THEN filename
     ELSE SubSeq(filename, (CHOOSE i \in dots : \A k \in dots : k <= i) + 1,
                 Len(filename))

\* shared.ts:317-344
treatAsHtml(filename) == toLowerCase(LastDotPart(filename)) \notin KnownExtensions

\* markdownToVue :449-450  the url without query, hash and .html/.md, with
\* index after a trailing slash
NormalizeLink(link) ==
  LET u == StripQueryHash(link)
      v == IF EndsWith(u, S_html) THEN DropLast(u, 5)
           ELSE IF EndsWith(u, S_md) THEN DropLast(u, 3) ELSE u
  IN IF EndsWith(v, <<"/">>) THEN v \o S_index ELSE v

\* markdownToVue :451-459  the page the url points to (the page that is
\* rendered lies in the root of srcDir, and the urls hold no . or ..
\* segment and no escape, so path.relative and decodeURIComponent change
\* nothing)
ResolveLink(url, inv) ==
  LET resolved == slash(IF StartsWith(url, <<"/">>) THEN DropFirst(url, 1) ELSE url)
  IN IF (resolved \o S_md) \in DOMAIN inv /\ DropLast(inv[resolved \o S_md], 3) # <<>>
     THEN DropLast(inv[resolved \o S_md], 3) ELSE resolved

S_localhost == <<"/", "/", "l", "o", "c", "a", "l", "h", "o", "s", "t">>

\* url.replace(EXTERNAL_URL_RE, '') for the urls of the model: a leading //
\* is removed
StripExternal(url) ==
  IF StartsWith(url, <<"/", "/">>) THEN DropFirst(url, 2) ELSE url

\* one entry of the ignoreDeadLinks array: a string, a regular expression
\* (of the form /^prefix/) or a predicate (true for the urls of `accepts`)
IgnoreEntryMatches(ignore, url) ==
  CASE ignore.kind = "string" -> url = ignore.value
    [] ignore.kind = "regexp" -> StartsWith(url, ignore.value)
    [] ignore.kind = "function" -> url \in ignore.accepts
    [] OTHER -> FALSE

shouldIgnoreDeadLink_never(ignoreDeadLinks, url) == FALSE

\* markdownToVue :418-442  (ignoreDeadLinks: "none" for a value that is not
\* set or false, "all" for true, "localhostLinks", or an array of entries)
shouldIgnoreDeadLink(ignoreDeadLinks, url) ==
  IF ignoreDeadLinks.mode = "none" THEN FALSE
  ELSE IF ignoreDeadLinks.mode = "all" THEN TRUE
  ELSE IF ignoreDeadLinks.mode = "localhostLinks"
    THEN StartsWith(StripExternal(url), S_localhost)
  ELSE \E k \in DOMAIN ignoreDeadLinks.entries :
         IgnoreEntryMatches(ignoreDeadLinks.entries[k], url)

RECURSIVE DeadLinks(_, _)
\* markdownToVue :413-469  the dead links of a page with the given links;
\* site: the pages without .md, rewrites.inv, the pages that exist as .html
\* files in the public directory, and ignoreDeadLinks
DeadLinks(links, s) ==
  IF links = <<>> THEN <<>>
  ELSE LET link == Head(links)
           url == NormalizeLink(link)
           resolved == ResolveLink(url, s.inv)
           dead == /\ treatAsHtml(StripQueryHash(link))
                   /\ resolved \notin s.pages
                   /\ resolved \notin s.public
                   /\ ~shouldIgnoreDeadLink(s.ignoreDeadLinks, url)
       IN (IF dead THEN <<url>> ELSE <<>>) \o DeadLinks(Tail(links), s)

IgnoreList(entries) == [mode |-> "list", entries |-> entries]
IgnoreOptions ==
  {[mode |-> "none", entries |-> <<>>],
   [mode |-> "all", entries |-> <<>>],
   [mode |-> "localhostLinks", entries |-> <<>>],
   IgnoreList(<<[kind |-> "string", value |-> U_missing]>>),
   IgnoreList(<<[kind |-> "string", value |-> U_missing_html]>>),
   IgnoreList(<<[kind |-> "regexp", value |-> <<"/", "m", "i", "s">>]>>),
   IgnoreList(<<[kind |-> "function", accepts |-> {U_missing_top}],
                [kind |-> "string", value |-> U_guide_dir]>>)}

\* the sites the page is rendered in: about.md is a page, rewritten to
\* info/about.md or not; public/brochure.html exists or not
LinkSites ==
  {[pages |-> {DropLast(F_about, 3), DropLast(F_index, 3)},
    inv |-> inv, public |-> pub, ignoreDeadLinks |-> ig] :
     inv \in {EmptyMap, (F_info_about :> F_about)},
     pub \in {{}, {DropFirst(U_brochure, 1)}},
     ig \in IgnoreOptions}

\* markdownToVue(src, file, publicDir) of a page with the given links
CallMarkdownToVue(links, s) ==
  /\ call = NoCall
  /\ call' = [fn |-> "markdownToVue", args |-> [links |-> links, site |-> s],
              result |-> [deadLinks |-> DeadLinks(links, s)]]
  /\ UNCHANGED nonResolverVars

\* the urls recorded in deadLinks by the call
RecordedUrls == Range(call.result.deadLinks)

\* the link points to a page (not to a file of a known other type) that is
\* neither in the page set nor in the public directory
LinkIsUnresolved(link) ==
  LET resolved == ResolveLink(NormalizeLink(link), call.args.site.inv)
  IN /\ resolved \notin call.args.site.pages
     /\ resolved \notin call.args.site.public

PageLinks == {l \in Range(call.args.links) : treatAsHtml(StripQueryHash(l))}

\* ignoreDeadLinks is true, or holds a string equal to str, a pattern that
\* matches str or a predicate that returns true for str
MatchedByIgnoreDeadLinks(str) ==
  LET ig == call.args.site.ignoreDeadLinks
  IN \/ ig.mode = "all"
     \/ /\ ig.mode = "list"
        /\ \E k \in DOMAIN ig.entries :
             \/ ig.entries[k].kind = "string" /\ ig.entries[k].value = str
             \/ ig.entries[k].kind = "regexp" /\ StartsWith(str, ig.entries[k].value)
             \/ ig.entries[k].kind = "function" /\ str \in ig.entries[k].accepts

\* C15 (as stated): a link of the page is recorded in deadLinks exactly when
\* its target is not in the page set, has no file in the public directory
\* and the link is not matched by ignoreDeadLinks (true, an equal string, a
\* matching pattern, a predicate returning true).
C15_DeadLinkUnlessLinkIgnored ==
  call.fn = "markdownToVue"
    => \A l \in PageLinks :
         NormalizeLink(l) \in RecordedUrls
           <=> (LinkIsUnresolved(l)
                /\ ~MatchedByIgnoreDeadLinks(l))

\* C15 (amended): a link of the page is recorded in deadLinks exactly when
\* its target is not in the page set, has no file in the public directory
\* and the url of the link without query, hash and .html/.md extension (with
\* index after a trailing slash) is not matched by ignoreDeadLinks.
C15_DeadLinkUnlessUrlIgnored ==
  call.fn = "markdownToVue"
    => \A l \in PageLinks :
         NormalizeLink(l) \in RecordedUrls
           <=> (LinkIsUnresolved(l)
                /\ ~MatchedByIgnoreDeadLinks(NormalizeLink(l)))

\* /missing is recorded as dead, and /missing#top is not because the string
\* /missing of ignoreDeadLinks equals its url without the hash
C15_Witness ==
  /\ call.fn = "markdownToVue"
  /\ \/ /\ call.args.links = <<U_missing, U_about>>
        /\ call.args.site.ignoreDeadLinks.mode = "none"
        /\ call.result.deadLinks = <<U_missing>>
     \/ /\ call.args.links = <<U_missing_top, U_guide_dir>>
        /\ call.args.site.ignoreDeadLinks.mode = "list"
        /\ call.result.deadLinks = <<U_guide_dir \o S_index>>

T_Page == <<"P", "a", "g", "e">>
T_Site == <<"S", "i", "t", "e">>
T_Docs == <<"D", "o", "c", "s">>
\* a title that holds the pattern $& of String.prototype.replace
T_Amp == <<"A", "$", "&">>
S_title == <<":", "t", "i", "t", "l", "e">>
S_bar == <<" ", "|", " ">>

\* a titleTemplate: not set, true, false or a string
NoTemplate == [kind |-> "undefined", value |-> <<>>]
BoolTemplate(b) == [kind |-> IF b THEN "true" ELSE "false", value |-> <<>>]
StrTemplate(str) == [kind |-> "string", value |-> str]

Titles == {<<>>, T_Page, T_Site, T_Docs, T_Amp}
Templates ==
  {NoTemplate, BoolTemplate(TRUE), BoolTemplate(FALSE),
   StrTemplate(T_Site), StrTemplate(T_Docs),
   StrTemplate(S_title \o <<" ", "-", " ">> \o T_Docs),
   StrTemplate(S_title \o <<"/">> \o S_title)}

\* template.includes(':title')
IncludesTitle(str) ==
  \E i \in 1..Len(str) : StartsWith(DropFirst(str, i - 1), S_title)

RECURSIVE ExpandReplacement(_, _)
\* the text String.prototype.replace puts in for a match when the
\* replacement is the string r: $$ gives $, $& gives the match
ExpandReplacement(r, match) ==
  IF r = <<>> THEN <<>>
  ELSE IF Len(r) >= 2 /\ r[1] = "$" /\ r[2] = "$"
    THEN <<"$">> \o ExpandReplacement(DropFirst(r, 2), match)
  ELSE IF Len(r) >= 2 /\ r[1] = "$" /\ r[2] = "&"
    THEN match \o ExpandReplacement(DropFirst(r, 2), match)
  ELSE <<Head(r)>> \o ExpandReplacement(Tail(r), match)

RECURSIVE ReplaceTitle(_, _)
\* shared.ts:190  template.replace(/:title/g, title)
ReplaceTitle(template, title) ==
  IF template = <<>> THEN <<>>
  ELSE IF StartsWith(template, S_title)
    THEN ExpandReplacement(title, S_title)
         \o ReplaceTitle(DropFirst(template, Len(S_title)), title)
  ELSE <<Head(template)>> \o ReplaceTitle(Tail(template), title)

createTitleTemplate_keepSiteTitle(siteTitle, template) ==
  IF template.kind = "false" THEN <<>>
  ELSE IF template.kind \in {"true", "undefined"} THEN S_bar \o siteTitle
  ELSE S_bar \o template.value

\* shared.ts:210-232
createTitleTemplate(siteTitle, template) ==
  IF template.kind = "false" THEN <<>>
  ELSE IF template.kind \in {"true", "undefined"} THEN S_bar \o siteTitle
  ELSE IF siteTitle = template.value THEN <<>>
  ELSE S_bar \o template.value

\* shared.ts:182-203  (a title or template that is not set: <<>> and
\* NoTemplate)
createTitle(siteData, pageData) ==
  LET title == IF pageData.title # <<>> THEN pageData.title ELSE siteData.title
      template == IF pageData.titleTemplate.kind # "undefined"
                  THEN pageData.titleTemplate ELSE siteData.titleTemplate
      templateString == createTitleTemplate(siteData.title, template)
  IN IF template.kind = "string" /\ IncludesTitle(template.value)
     THEN ReplaceTitle(template.value, title)
     ELSE IF title = DropFirst(templateString, 3) THEN title
     ELSE title \o templateString

CallCreateTitle(siteData, pageData) ==
  /\ call = NoCall
  /\ call' = [fn |-> "createTitle",
              args |-> [siteData |-> siteData, pageData |-> pageData],
              result |-> createTitle(siteData, pageData)]
  /\ UNCHANGED nonResolverVars

\* the title and the template createTitle works with
EffectiveTitle ==
  IF call.args.pageData.title # <<>> THEN call.args.pageData.title
  ELSE call.args.siteData.title
EffectiveTemplate ==
  IF call.args.pageData.titleTemplate.kind # "undefined"
  THEN call.args.pageData.titleTemplate ELSE call.args.siteData.titleTemplate

\* the suffix: empty for the template false, ' | ' + siteTitle for the
\* default template, empty for a template equal to the site title, else
\* ' | ' + template
TitleSuffix ==
  LET siteTitle == call.args.siteData.title
  IN CASE EffectiveTemplate.kind = "false" -> <<>>
       [] EffectiveTemplate.kind \in {"true", "undefined"} -> S_bar \o siteTitle
       [] OTHER -> IF EffectiveTemplate.value = siteTitle THEN <<>>
                   ELSE S_bar \o EffectiveTemplate.value

HasPlaceholder ==
  EffectiveTemplate.kind = "string" /\ IncludesTitle(EffectiveTemplate.value)

RECURSIVE SubstituteTitle(_, _)
\* the template with the title put in for every :title, character by character
SubstituteTitle(template, title) ==
  IF template = <<>> THEN <<>>
  ELSE IF StartsWith(template, S_title)
    THEN title \o SubstituteTitle(DropFirst(template, Len(S_title)), title)
  ELSE <<Head(template)>> \o SubstituteTitle(Tail(template), title)

ResolveRewritesCalled ==
  /\ call = NoCall
  /\ \E pages \in PageLists, rules \in RuleLists : CallResolveRewrites(pages, rules)

ResolvePagesCalled ==
  /\ call = NoCall
  /\ \E src \in ResolverTrees : CallResolvePages(src)

ResolveDynamicRoutesCalled ==
  /\ call = NoCall
  /\ \E routes \in Globs({F_post, F_tag}), pm \in PostModules, tm \in TagModules :
       CallResolveDynamicRoutes(routes, (F_post :> pm) @@ (F_tag :> tm))

MarkdownToVueCalled ==
  /\ call = NoCall
  /\ \E links \in LinkLists, s \in LinkSites : CallMarkdownToVue(links, s)

CreateTitleCalled ==
  /\ call = NoCall
  /\ \E siteTitle \in {T_Site, T_Docs}, siteTemplate \in Templates,
        title \in Titles, template \in Templates :
       CallCreateTitle([title |-> siteTitle, titleTemplate |-> siteTemplate],
                       [title |-> title, titleTemplate |-> template])

ResolverNext ==
  \/ ResolveRewritesCalled
  \/ ResolvePagesCalled
  \/ ResolveDynamicRoutesCalled
  \/ MarkdownToVueCalled
  \/ CreateTitleCalled

\* the functions are called in a process where no build and no session runs
ResolverInit == RouterInit /\ BuildOff /\ call = NoCall /\ DevOff /\ DataOff

ResolverSpec == ResolverInit /\ [][ResolverNext]_vars

(***************************************************************************)
(* Part IV - the dev server of src/node/cli.ts and its restarts, asked for *)
(* by the watcher handlers of the plugin (configureServer,                 *)
(* handleHotUpdate).                                                       *)
(***************************************************************************)
\* number of watcher events that ask for a restart
MaxTriggers == 2
\* number of servers created in one run of the process
MaxServers == 3

Triggers == 1..MaxTriggers

NoTrigger ==
  [pc |-> "idle", kind |-> "none", server |-> 0, promise |-> 0,
   started |-> FALSE, inFlight |-> 0]

\* cli.ts:41-59  `vitepress dev` has created its first server, which listens
DevInit ==
  /\ restartPromise = 0
  /\ servers = <<"listening">>
  /\ restarts = <<>>
  /\ trig = [t \in Triggers |-> NoTrigger]

\* the restarts whose async function (cli.ts:44-47) has not settled
RestartsInFlight == {r \in DOMAIN restarts : restarts[r].pc \in {"closing", "creating"}}

\* the watcher of a server delivers events from createServer on until the
\* server is closed
WatcherActive(g) == servers[g] \in {"starting", "listening", "closing"}

RestartPending_never(promise) == FALSE

\* cli.ts:43  if (!restartPromise)
RestartPending(promise) == promise # 0

\* cli.ts:42-52  the recreateServer callback of the server g, called by the
\* handler of the event t: without a pending restart it starts one, whose
\* async function runs up to the end of the call of server.close(); it
\* returns restartPromise, which the handler awaits
RecreateServer(t, g, kind) ==
  LET inFlight == IF RestartsInFlight = {} THEN 0
                  ELSE CHOOSE r \in RestartsInFlight : TRUE
  IN IF ~RestartPending(restartPromise)
     THEN /\ restarts' = Append(restarts, [pc |-> "closing", server |-> g, created |-> 0])
          /\ restartPromise' = Len(restarts) + 1
          /\ servers' = [servers EXCEPT ![g] = IF @ = "closed" THEN @ ELSE "closing"]
          /\ trig' = [trig EXCEPT ![t] =
               [pc |-> "awaiting", kind |-> kind, server |-> g,
                promise |-> Len(restarts) + 1, started |-> TRUE,
                inFlight |-> inFlight]]
     ELSE /\ trig' = [trig EXCEPT ![t] =
               [pc |-> "awaiting", kind |-> kind, server |-> g,
                promise |-> restartPromise, started |-> FALSE,
                inFlight |-> inFlight]]
          /\ UNCHANGED <<restarts, restartPromise, servers>>

\* bundle.ts:619-633  onFileAddDelete: a theme file was created or deleted
\* under the server g; the handler calls recreateServer at once
ThemeFileAddDelete(t, g) ==
  /\ trig[t].pc = "idle"
  /\ g \in DOMAIN servers /\ WatcherActive(g)
  /\ Len(servers) < MaxServers
  /\ RecreateServer(t, g, "theme")
  /\ UNCHANGED <<routerVars, buildVars, resolverVars, dataVars>>

\* bundle.ts:774-784  handleHotUpdate: the config file or one of its
\* dependencies changed under the server g; the handler loads the user config
ConfigFileChange(t, g) ==
  /\ trig[t].pc = "idle"
  /\ g \in DOMAIN servers /\ WatcherActive(g)
  /\ Len(servers) < MaxServers
  /\ trig' = [trig EXCEPT ![t] = [NoTrigger EXCEPT !.pc = "resolving",
                                                   !.kind = "config",
                                                   !.server = g]]
  /\ UNCHANGED <<restartPromise, servers, restarts>>
  /\ UNCHANGED <<routerVars, buildVars, resolverVars, dataVars>>

\* bundle.ts:786-803  resolveUserConfig has settled: on an error the handler
\* logs it and returns, else it calls recreateServer
UserConfigResolved(t, ok) ==
  /\ trig[t].pc = "resolving"
  /\ IF ok
     THEN RecreateServer(t, trig[t].server, "config")
     ELSE /\ trig' = [trig EXCEPT ![t].pc = "done"]
          /\ UNCHANGED <<restartPromise, servers, restarts>>
  /\ UNCHANGED <<routerVars, buildVars, resolverVars, dataVars>>

RestartFinally_onSuccess(promise, ok) == IF ok THEN 0 ELSE promise

\* cli.ts:47-49  .finally(() => { restartPromise = undefined }): what
\* restartPromise is once the restart has settled, fulfilled (ok) or rejected
RestartFinally(promise, ok) == 0

\* cli.ts:45-46, :41  server.close() of the restart r has resolved and
\* createDevServer() is called: createServer gives the next server, or
\* rejects; a rejection settles the restart, and finally() clears
\* restartPromise (cli.ts:47-49)
ServerClosed(r, ok) ==
  /\ r \in DOMAIN restarts
  /\ restarts[r].pc = "closing"
  /\ LET closed == [servers EXCEPT ![restarts[r].server] = "closed"]
     IN IF ok
        THEN /\ servers' = Append(closed, "starting")
             /\ restarts' = [restarts EXCEPT ![r].pc = "creating",
                                             ![r].created = Len(servers) + 1]
             /\ UNCHANGED restartPromise
        ELSE /\ servers' = closed
             /\ restarts' = [restarts EXCEPT ![r].pc = "failed"]
             /\ restartPromise' = RestartFinally(restartPromise, FALSE)
  /\ UNCHANGED trig
  /\ UNCHANGED <<routerVars, buildVars, resolverVars, dataVars>>

\* cli.ts:53-56, :47-49  server.listen() of the new server has settled:
\* createDevServer returns or throws, the restart settles and finally()
\* clears restartPromise
ServerListen(r, ok) ==
  /\ r \in DOMAIN restarts
  /\ restarts[r].pc = "creating"
  /\ servers' = [servers EXCEPT ![restarts[r].created] =
                   IF ok /\ @ = "starting" THEN "listening" ELSE @]
  /\ restarts' = [restarts EXCEPT ![r].pc = IF ok THEN "done" ELSE "failed"]
  /\ restartPromise' = RestartFinally(restartPromise, ok)
  /\ UNCHANGED trig
  /\ UNCHANGED <<routerVars, buildVars, resolverVars, dataVars>>

\* the await of recreateServer() in the handler of the event t is over
HandlerResumes(t) ==
  /\ trig[t].pc = "awaiting"
  /\ restarts[trig[t].promise].pc \in {"done", "failed"}
  /\ trig' = [trig EXCEPT ![t].pc = "done"]
  /\ UNCHANGED <<restartPromise, servers, restarts>>
  /\ UNCHANGED <<routerVars, buildVars, resolverVars, dataVars>>

DevNext ==
  \/ \E t \in Triggers, g \in 1..MaxServers : ThemeFileAddDelete(t, g)
  \/ \E t \in Triggers, g \in 1..MaxServers : ConfigFileChange(t, g)
  \/ \E t \in Triggers, ok \in BOOLEAN : UserConfigResolved(t, ok)
  \/ \E r \in 1..MaxServers, ok \in BOOLEAN : ServerClosed(r, ok)
  \/ \E r \in 1..MaxServers, ok \in BOOLEAN : ServerListen(r, ok)
  \/ \E t \in Triggers : HandlerResumes(t)

\* the dev server process: no build and no browser session in it
DevServerInit == DevInit /\ RouterInit /\ BuildOff /\ call = NoCall /\ DataOff

DevSpec == DevServerInit /\ [][DevNext]_vars

\* the handlers that have called recreateServer
Called == {t \in Triggers : trig[t].pc \in {"awaiting", "done"} /\ trig[t].promise # 0}

C30_SettledRestartIsCleared ==
  /\ restartPromise # 0 => restartPromise \in RestartsInFlight
  /\ \A r \in DOMAIN restarts :
       restarts[r].pc \in {"done", "failed"} => restartPromise # r
  /\ \A t \in Called :
       /\ trig[t].inFlight = 0 => (trig[t].started /\ trig[t].promise \in DOMAIN restarts)
       /\ ~trig[t].started => (trig[t].inFlight # 0 /\ trig[t].promise = trig[t].inFlight)

\* a restart has failed, and a handler that called recreateServer afterwards
\* has started the next restart
C30_Witness ==
  /\ Len(restarts) = 2
  /\ restarts[1].pc = "failed"
  /\ \E t \in Called : trig[t].started /\ trig[t].promise = 2 /\ trig[t].inFlight = 0

(***************************************************************************)
(* Part V - chunking of the client build: staticImportedByEntry            *)
(* (bundle.ts:266-308), called by manualChunks with one memo cache for all *)
(* the modules of the build.                                               *)
(***************************************************************************)
\* greatest number of importers of one module
MaxImporters == 2
\* greatest number of queries that share one cache
MaxQueries == 2

\* the modules of the graph: e satisfies the base case (isEntry, or the entry
\* regex), a, b and c do not
EntryModule == "e"
Modules == {"a", "b", "c"}

\* the lists of at most n distinct elements of S, in every order
DistinctLists(S, n) ==
  {l \in UNION {[1..k -> S] : k \in 0..n} :
     \A i \in DOMAIN l, j \in DOMAIN l : i # j => l[i] # l[j]}

\* the import graphs: for every module the list mod.importers
Graphs ==
  {g \in [Modules -> DistinctLists(Modules \cup {EntryModule}, MaxImporters)] :
     \A m \in Modules : \A k \in DOMAIN g[m] : g[m][k] # m}

QueryLists == UNION {[1..n -> Modules] : n \in 1..MaxQueries}

\* Rollup's getModuleInfo for a module of the graph
getModuleInfo(g, id) ==
  [isEntry |-> id = EntryModule,
   importers |-> IF id = EntryModule THEN <<>> ELSE g[id]]

\* importStack.includes(id)
Includes(importStack, id) == \E k \in DOMAIN importStack : importStack[k] = id

CacheSet_skip(cache, id, value) == cache

\* cache.set(id, value)
CacheSet(cache, id, value) ==
  [k \in DOMAIN cache \cup {id} |-> IF k = id THEN value ELSE cache[k]]

\* bundle.ts:266-308  staticImportedByEntry and the Array.some over the
\* importers (from the k-th on; it stops at the first importer that gives
\* true).  Result: the value returned, the cache afterwards, and the number of
\* calls of getModuleInfo made.
RECURSIVE staticImportedByEntry(_, _, _, _)
RECURSIVE SomeImporter(_, _, _, _, _)
staticImportedByEntry(id, g, cache, importStack) ==
  IF id \in DOMAIN cache
  THEN [value |-> cache[id], cache |-> cache, walked |-> 0]
  ELSE IF Includes(importStack, id)
  THEN [value |-> FALSE, cache |-> CacheSet(cache, id, FALSE), walked |-> 0]
  ELSE LET mod == getModuleInfo(g, id)
       IN IF mod.isEntry
          THEN [value |-> TRUE, cache |-> CacheSet(cache, id, TRUE), walked |-> 1]
          ELSE LET r == SomeImporter(mod.importers, 1, g, cache, importStack \o <<id>>)
               IN [value |-> r.value, cache |-> CacheSet(r.cache, id, r.value),
                   walked |-> r.walked + 1]

SomeImporter(importers, k, g, cache, importStack) ==
  IF k > Len(importers)
  THEN [value |-> FALSE, cache |-> cache, walked |-> 0]
  ELSE LET r == staticImportedByEntry(importers[k], g, cache, importStack)
       IN IF r.value THEN r
          ELSE LET rest == SomeImporter(importers, k + 1, g, r.cache, importStack)
               IN [value |-> rest.value, cache |-> rest.cache,
                   walked |-> r.walked + rest.walked]

\* bundle.ts:169-177  manualChunks calls staticImportedByEntry for one module
\* after the other with the same cache: the results of the queries qs[k..]
RECURSIVE Queries(_, _, _, _)
Queries(qs, k, g, cache) ==
  IF k > Len(qs) THEN <<>>
  ELSE LET r == staticImportedByEntry(qs[k], g, cache, <<>>)
       IN <<[id |-> qs[k], value |-> r.value, before |-> cache,
             after |-> r.cache, walked |-> r.walked]>>
            \o Queries(qs, k + 1, g, r.cache)

CallStaticImportedByEntry(g, qs) ==
  /\ call = NoCall
  /\ call' = [fn |-> "staticImportedByEntry", args |-> <<g, qs>>,
              result |-> Queries(qs, 1, g, EmptyMap)]
  /\ UNCHANGED nonResolverVars

StaticImportedByEntryCalled ==
  /\ call = NoCall
  /\ \E g \in Graphs, qs \in QueryLists : CallStaticImportedByEntry(g, qs)

ChunkNext == StaticImportedByEntryCalled

ChunkInit == RouterInit /\ BuildOff /\ call = NoCall /\ DevOff /\ DataOff

ChunkSpec == ChunkInit /\ [][ChunkNext]_vars

\* the modules from which a chain of static importers leads to the entry:
\* the least set that holds the entry and every module with an importer in it
RECURSIVE ImportedFrom(_, _)
ImportedFrom(g, S) ==
  LET next == S \cup {m \in Modules : \E k \in DOMAIN g[m] : g[m][k] \in S}
  IN IF next = S THEN S ELSE ImportedFrom(g, next)

ImportedByEntry(g) == ImportedFrom(g, {EntryModule})

\* C23: staticImportedByEntry(id) returns true exactly when a chain of static
\* importers leads from id to a module satisfying the base case, for every
\* import graph (cycles included), every order of the importers lists and
\* every sequence of earlier queries sharing the cache.
C23_ExactlyWhenImportedByEntry ==
  call.fn = "staticImportedByEntry"
    => \A k \in DOMAIN call.result :
         call.result[k].value = (call.result[k].id \in ImportedByEntry(call.args[1]))

\* C24: staticImportedByEntry terminates on every finite import graph (every
\* module is walked at most once in a query), and after a query for id the
\* cache holds the boolean returned for id, so that a repeated query returns
\* it without walking the graph, then and after every later query.
C24_TerminatesAndMemoizes ==
  call.fn = "staticImportedByEntry"
    => \A k \in DOMAIN call.result :
         LET q == call.result[k]
             again == staticImportedByEntry(q.id, call.args[1], q.after, <<>>)
         IN /\ q.walked <= Cardinality(Modules) + 1
            /\ q.id \in DOMAIN q.after
            /\ q.after[q.id] = q.value
            /\ again.value = q.value /\ again.walked = 0
            /\ \A j \in DOMAIN call.result :
                 j > k => (q.id \in DOMAIN call.result[j].after
                             /\ call.result[j].after[q.id] = q.value)

\* a module on an import cycle was queried twice and a third module after it:
\* the first query walked the cycle, the second walked nothing
C24_Witness ==
  /\ call.fn = "staticImportedByEntry"
  /\ Len(call.result) >= 2
  /\ LET g == call.args[1]
         q1 == call.result[1]
         q2 == call.result[2]
     IN /\ q1.id = q2.id
        /\ \E m \in Modules \ {q1.id} :
             Includes(g[q1.id], m) /\ Includes(g[m], q1.id)
        /\ q1.walked >= 2
        /\ q2.walked = 0 /\ q2.value = q1.value

(***************************************************************************)
(* Part VI - the page entries of the bundle: the input object of the vite  *)
(* build (bundle.ts:63-70), the chunks renderChunk and generateBundle make *)
(* of them (bundle.ts:699-766) and the keys renderPage reads (render.ts)   *)
(***************************************************************************)

\* the longest list of resolved pages
MaxPages == 2

F_ab_dir == <<"a", "/", "b">> \o S_md
F_ab_flat == <<"a", "_", "b">> \o S_md
F_Ab_flat == <<"A", "_", "b">> \o S_md
F_n == <<"n">> \o S_md
F_under_n == <<"_", "n">> \o S_md

\* page files of a source directory: a/b.md next to a_b.md and A_b.md, n.md
\* next to _n.md
EntryPages == {F_index, F_ab_dir, F_ab_flat, F_Ab_flat, F_n, F_under_n}

\* config.pages: distinct files in the order of sort()
EntryPageLists == {sort(l) : l \in DistinctLists(EntryPages, MaxPages)}

\* config.rewrites.map: no rewrite, or n.md served as a_b.md
EntryRewrites == {EmptyMap, (F_n :> F_ab_flat)}

\* the fields of SiteConfig that bundle() and renderPage() read
EntryConfigs ==
  {[pages |-> pl, rewrites |-> [map |-> m], mpa |-> FALSE] :
     pl \in EntryPageLists, m \in EntryRewrites}

\* the longest source of a page module, in lines
MaxLines == 2

\* The code of a chunk is a list of tokens: "c" some code, "q" a quote, "h"
\* some characters of a string, "v" the text `const _hoisted_1 =
\* /*#__PURE__*/ createStaticVNode(`, "n" the text `, 1)`, "nl" a line end,
\* and the markers "S" (__VP_STATIC_START__) and "E" (__VP_STATIC_END__).
\* The compiler writes every hoisted static vnode on a line of its own.
CodeLine(text) == [kind |-> "code", text |-> text]
StaticLine(content) == [kind |-> "static", text |-> content]
Lines ==
  {CodeLine(<<"c">>), CodeLine(<<"c", "q", "h", "q">>),
   StaticLine(<<"h">>), StaticLine(<<>>), StaticLine(<<"h", "q", "n", "h">>)}
Sources == UNION {[1..k -> Lines] : k \in 0..MaxLines}

\* the text of a line, with str as the string of its static vnode
LineText(line, str) ==
  IF line.kind = "static" THEN <<"v", "q">> \o str \o <<"q", "n">> ELSE line.text

RECURSIVE JoinLines(_, _, _)
\* the lines from k on, a line end between two of them; with blank set the
\* string of every static vnode is empty
JoinLines(lines, k, blank) ==
  IF k > Len(lines) THEN <<>>
  ELSE LineText(lines[k], IF blank THEN <<>> ELSE lines[k].text)
       \o (IF k < Len(lines) THEN <<"nl">> ELSE <<>>)
       \o JoinLines(lines, k + 1, blank)

RECURSIVE InjectMarkers(_, _)
\* bundle.ts:710-713  code.replace(staticInjectMarkerRE, '$1("__VP_STATIC_
\* START__$2__VP_STATIC_END__", $3)') from token i on: (.*) is greedy and
\* stays on its line
InjectMarkers(code, i) ==
  IF i > Len(code) THEN <<>>
  ELSE LET lineEnds == {j \in i..Len(code) : code[j] = "nl"} \cup {Len(code) + 1}
           lineEnd == CHOOSE j \in lineEnds : \A k \in lineEnds : j <= k
           ends == {j \in (i + 2)..(lineEnd - 2) : code[j] = "q" /\ code[j + 1] = "n"}
           last == CHOOSE j \in ends : \A k \in ends : k <= j
       IN IF code[i] = "v" /\ i < Len(code) /\ code[i + 1] = "q" /\ ends # {}
          THEN <<"v", "q", "S">> \o SubSeq(code, i + 2, last - 1) \o <<"E", "q", "n">>
               \o InjectMarkers(code, last + 2)
          ELSE <<code[i]>> \o InjectMarkers(code, i + 1)

\* bundle.ts:699-718  renderChunk: the code of the chunk after the hook
renderChunk(ssr, chunk, code) ==
  IF ~ssr /\ isPageChunk(chunk) THEN InjectMarkers(code, 1) ELSE code

\* the marker ends a region of staticStripRE that starts at token i
RegionEnds(code, i) ==
  {j \in (i + 2)..(Len(code) - 1) : code[j] = "E" /\ code[j + 1] = "q"}

StripEnd_greedy(code, i) ==
  CHOOSE j \in RegionEnds(code, i) : \A k \in RegionEnds(code, i) : k <= j

\* bundle.ts:350  [^]*? is lazy: the region ends at the first end marker
\* that a quote follows
StripEnd(code, i) ==
  CHOOSE j \in RegionEnds(code, i) : \A k \in RegionEnds(code, i) : j <= k

RECURSIVE StripStatic(_, _)
\* bundle.ts:759  chunk.code.replace(staticStripRE, `""`) from token i on
StripStatic(code, i) ==
  IF i > Len(code) THEN <<>>
  ELSE IF code[i] = "q" /\ i < Len(code) /\ code[i + 1] = "S"
          /\ RegionEnds(code, i) # {}
       THEN <<"q", "q">> \o StripStatic(code, StripEnd(code, i) + 2)
       ELSE <<code[i]>> \o StripStatic(code, i + 1)

IsMarker(t) == t \in {"S", "E"}

\* bundle.ts:763  chunk.code.replace(staticRestoreRE, '')
RestoreStatic(code) == SelectSeq(code, LAMBDA t : ~IsMarker(t))

S_js == <<".", "j", "s">>
S_lean_js == <<".", "l", "e", "a", "n">> \o S_js
S_assets == <<"a", "s", "s", "e", "t", "s", "/">>
S_package_json == <<"p", "a", "c", "k", "a", "g", "e", ".", "j", "s", "o", "n">>

\* bundle.ts:130-147  assetFileNames, entryFileNames
FileNameOf(ssr, chunk) ==
  IF chunk.type = "asset" THEN S_assets \o chunk.name \o <<".">> \o chunk.hash
  ELSE IF ssr THEN chunk.name \o S_js
  ELSE S_assets \o chunk.name \o <<".">> \o chunk.hash \o S_js

\* fileName.replace(/\.js$/, '.lean.js')
LeanFileName(fileName) ==
  IF EndsWith(fileName, S_js) THEN DropLast(fileName, Len(S_js)) \o S_lean_js
  ELSE fileName

\* the chunks of the bundle as generateBundle receives them: every chunk has
\* its file name and the code renderChunk left, the source of every module
\* being the same lines
RenderedBundle(cfg, ssr, lines) ==
  LET chunks == Bundle(cfg, ssr)
  IN [i \in DOMAIN chunks |->
        [type |-> chunks[i].type, isEntry |-> chunks[i].isEntry,
         name |-> chunks[i].name, facadeModuleId |-> chunks[i].facadeModuleId,
         hash |-> chunks[i].hash, fileName |-> FileNameOf(ssr, chunks[i]),
         code |-> IF chunks[i].type = "asset" THEN <<>>
                  ELSE renderChunk(ssr, chunks[i], JoinLines(lines, 1, FALSE))]]

\* bundle.ts:751-760  the chunk added as bundle[name + '-lean']
LeanChunk(chunk) ==
  [chunk EXCEPT !.fileName = LeanFileName(@), !.code = StripStatic(@, 1)]

\* bundle.ts:727-766  the bundle after generateBundle: the server build emits
\* package.json; the client build adds a lean chunk after every page chunk
\* met by the loop (which walks the names the bundle had when it started)
\* and takes the markers out of the page chunk
generateBundleOutput(ssr, chunks) ==
  IF ssr
  THEN Append(chunks, [type |-> "asset", isEntry |-> FALSE, name |-> S_package_json,
                       facadeModuleId |-> <<>>, hash |-> <<>>,
                       fileName |-> S_package_json, code |-> <<>>])
  ELSE [i \in DOMAIN chunks |->
          IF isPageChunk(chunks[i])
          THEN [chunks[i] EXCEPT !.code = RestoreStatic(@)] ELSE chunks[i]]
       \o [i \in 1..Len(SelectSeq(chunks, isPageChunk)) |->
             LeanChunk(SelectSeq(chunks, isPageChunk)[i])]

CallGenerateBundle(cfg, ssr, lines) ==
  /\ call = NoCall
  /\ call' = [fn |-> "generateBundle", args |-> <<cfg, ssr, lines>>,
              result |->
                [bundle |-> generateBundleOutput(ssr, RenderedBundle(cfg, ssr, lines)),
                 map |-> generateBundle(ssr, RenderedBundle(cfg, ssr, lines), EmptyMap).map]]
  /\ UNCHANGED nonResolverVars

GenerateBundleCalled ==
  /\ call = NoCall
  /\ \E cfg \in EntryConfigs, ssr \in BOOLEAN, lines \in Sources :
       CallGenerateBundle(cfg, ssr, lines)

\* bundle.ts:743-748, build.ts:137-143, render.ts:59-65  the client build of
\* the site records the hashes of its page chunks, then renderPage reads the
\* hash of every resolved page
CallRenderKeys(cfg) ==
  /\ call = NoCall
  /\ LET map == generateBundle(FALSE, Bundle(cfg, FALSE), EmptyMap).map
     IN call' = [fn |-> "renderKeys", args |-> <<cfg>>,
                 result |->
                   [map |-> map,
                    links |-> [i \in DOMAIN cfg.pages |->
                                 PreloadLinks(cfg, RewriteOf(cfg, cfg.pages[i]), TRUE, map)]]]
  /\ UNCHANGED nonResolverVars

RenderKeysCalled ==
  /\ call = NoCall
  /\ \E cfg \in EntryConfigs : CallRenderKeys(cfg)

CallBundleInput(cfg) ==
  /\ call = NoCall
  /\ call' = [fn |-> "input", args |-> <<cfg>>,
              result |-> InputMap(cfg, Len(cfg.pages))]
  /\ UNCHANGED nonResolverVars

BundleInputCalled ==
  /\ call = NoCall
  /\ \E cfg \in EntryConfigs : CallBundleInput(cfg)

EntryNext ==
  \/ BundleInputCalled
  \/ GenerateBundleCalled
  \/ RenderKeysCalled

EntryInit == RouterInit /\ BuildOff /\ call = NoCall /\ DevOff /\ DataOff

EntrySpec == EntryInit /\ [][EntryNext]_vars

\* C25: the input object has one named entry per resolved page: two distinct
\* pages never get the same entry name, the number of entries is the number
\* of pages, and every page is the file of an entry (none was overwritten)
C25_OneInputEntryPerPage ==
  call.fn = "input"
    => LET cfg == call.args[1]
           input == call.result
       IN /\ \A i \in DOMAIN cfg.pages, j \in DOMAIN cfg.pages :
               i # j => InputName(cfg, cfg.pages[i]) # InputName(cfg, cfg.pages[j])
          /\ Len(input) = Len(cfg.pages)
          /\ \A i \in DOMAIN cfg.pages :
               \E e \in DOMAIN input : input[e].file = cfg.pages[i]

\* C26: in the client build generateBundle records one entry of the hash map
\* for every page chunk and adds exactly one lean chunk for it, whose file
\* name is the page chunk's with .js replaced by .lean.js and whose code is
\* the page chunk's code with the string of every static vnode replaced by
\* the empty string literal; afterwards the page chunk's code has no marker
\* (it is the code of its source).  Chunks that are not page chunks get no
\* lean chunk and keep their code, and the server build adds no lean chunk
\* and records nothing.
C26_OneLeanChunkPerPageChunk ==
  call.fn = "generateBundle"
    => LET cfg == call.args[1]
           ssr == call.args[2]
           lines == call.args[3]
           before == RenderedBundle(cfg, ssr, lines)
           out == call.result.bundle
           added == {j \in DOMAIN out : j > Len(before)}
           IsLeanOf(j, i) ==
             /\ EndsWith(out[j].fileName, S_lean_js)
             /\ EndsWith(before[i].fileName, S_js)
             /\ DropLast(out[j].fileName, Len(S_lean_js))
                  = DropLast(before[i].fileName, Len(S_js))
       IN IF ssr
          THEN /\ \A j \in DOMAIN out : ~EndsWith(out[j].fileName, S_lean_js)
               /\ \A i \in DOMAIN before : out[i] = before[i]
               /\ call.result.map = EmptyMap
          ELSE /\ \A i \in DOMAIN before :
                    IF isPageChunk(before[i])
                    THEN /\ Cardinality({j \in added : IsLeanOf(j, i)}) = 1
                         /\ \A j \in added :
                              IsLeanOf(j, i) => out[j].code = JoinLines(lines, 1, TRUE)
                         /\ out[i].code = JoinLines(lines, 1, FALSE)
                         /\ \A k \in DOMAIN out[i].code : ~IsMarker(out[i].code[k])
                         /\ toLowerCase(before[i].name) \in DOMAIN call.result.map
                    ELSE /\ out[i] = before[i]
                         /\ \A j \in added : ~IsLeanOf(j, i)
               /\ \A j \in added : \E i \in DOMAIN before :
                    isPageChunk(before[i]) /\ IsLeanOf(j, i)
               /\ Cardinality(added)
                    = Cardinality({i \in DOMAIN before : isPageChunk(before[i])})

\* a client build of two pages whose source has two static vnodes: the
\* bundle has a lean chunk, and the code of the page chunks had markers
C26_Witness ==
  /\ call.fn = "generateBundle"
  /\ ~call.args[2]
  /\ Len(call.args[1].pages) = 2
  /\ Len(call.args[3]) = 2
  /\ \A k \in DOMAIN call.args[3] : call.args[3][k].kind = "static"
  /\ \E j \in DOMAIN call.result.bundle :
       EndsWith(call.result.bundle[j].fileName, S_lean_js)
  /\ \E c \in Range(RenderedBundle(call.args[1], FALSE, call.args[3])) :
       \E k \in DOMAIN c.code : IsMarker(c.code[k])

\* the key renderPage looks up for a page: the rewritten path with '/'
\* replaced by '_', sanitized, lowercased
RenderKey(cfg, page) ==
  toLowerCase(sanitizeFileName(SlashToUnderscore(RewriteOf(cfg, page))))

\* C27: for every resolved page the key the client build records the hash
\* under (the name of the page's entry chunk, lowercased) is the key
\* renderPage looks up, distinct pages have distinct keys, every rendered
\* page of a non-MPA build finds the hash of its own chunk, and the map has
\* one entry per page
C27_HashKeysAgreeAndAreDistinct ==
  call.fn = "renderKeys"
    => LET cfg == call.args[1]
           pages == cfg.pages
       IN /\ \A i \in DOMAIN pages :
               toLowerCase(PageChunk(cfg, FALSE, pages[i]).name) = RenderKey(cfg, pages[i])
          /\ \A i \in DOMAIN pages, j \in DOMAIN pages :
               i # j => RenderKey(cfg, pages[i]) # RenderKey(cfg, pages[j])
          /\ \A i \in DOMAIN pages : \A l \in call.result.links[i] :
               l.pageHash = Hash(FALSE, pages[i])
          /\ Cardinality(DOMAIN call.result.map) = Len(pages)

(***************************************************************************)
(* Part VII - the static-data plugin (part_006:108-286): the load hook of  *)
(* a data loader file, called by the client and by the server build        *)
(***************************************************************************)

\* the calls of the load hook in one run of the process
MaxLoadCalls == 3

LoadCallIds == 1..MaxLoadCalls

\* ids of data loader files (they match loaderMatch, part_006:118)
LoaderIds == {"posts.data.ts", "team.data.ts"}

\* idToPendingPromiseMap[id] is undefined
NoPromise == [state |-> "none", value |-> <<>>]
PendingPromise == [state |-> "pending", value |-> <<>>]
FulfilledPromise(value) == [state |-> "fulfilled", value |-> value]

\* resolve: true when the call made the promise of its id (_resolve is set);
\* shared: the call returned the promise another call made; run: which call
\* of the load function of the loader this call made
IdleCall ==
  [pc |-> "idle", id |-> "", resolve |-> FALSE, shared |-> FALSE, run |-> 0,
   result |-> <<>>]

NoExecutions == [modules |-> 0, loads |-> 0]

\* part_006:160-167  after configResolved (and, in the dev server,
\* configureServer): the command is build or serve
DataInit ==
  /\ isBuild \in BOOLEAN
  /\ idToPendingPromiseMap = [id \in LoaderIds |-> NoPromise]
  /\ idToLoaderModulesMap = {}
  /\ loadCalls = [c \in LoadCallIds |-> IdleCall]
  /\ executions = [id \in LoaderIds |-> NoExecutions]

\* part_006:165-167  server is set by configureServer, which only the dev
\* server calls
ServerDefined == ~isBuild

\* what the k-th call of the load function of the loader id returns: a
\* loader reads files and the clock, so every call has a value of its own
LoaderData(id, k) == [loader |-> id, run |-> k]

\* part_006:235-237  `export const data = JSON.parse(${JSON.stringify(
\* JSON.stringify(data))})`
ModuleSource(data) == <<"export const data = JSON.parse(", data, ")">>

SharePending_never(build, promise) == FALSE

\* part_006:177-179  if (isBuild) { if (idToPendingPromiseMap[id]) return it }
SharePending(build, promise) == build /\ promise # NoPromise

\* part_006:173-213  load(id) is called and runs to its first await: it
\* returns the pending promise of the id, or makes one (in a build) and
\* loads the loader module, or takes the module kept for HMR and calls its
\* load function
Load(c, id) ==
  /\ loadCalls[c].pc = "idle"
  /\ IF SharePending(isBuild, idToPendingPromiseMap[id])
     THEN /\ loadCalls' = [loadCalls EXCEPT ![c] =
                             [IdleCall EXCEPT !.pc = "awaiting", !.id = id,
                                              !.shared = TRUE]]
          /\ UNCHANGED <<idToPendingPromiseMap, executions>>
     ELSE /\ idToPendingPromiseMap' =
               IF isBuild THEN [idToPendingPromiseMap EXCEPT ![id] = PendingPromise]
               ELSE idToPendingPromiseMap
          /\ IF id \in idToLoaderModulesMap
             THEN /\ loadCalls' = [loadCalls EXCEPT ![c] =
                                     [IdleCall EXCEPT !.pc = "running", !.id = id,
                                                      !.resolve = isBuild,
                                                      !.run = executions[id].loads + 1]]
                  /\ executions' = [executions EXCEPT ![id].loads = @ + 1]
             ELSE /\ loadCalls' = [loadCalls EXCEPT ![c] =
                                     [IdleCall EXCEPT !.pc = "importing", !.id = id,
                                                      !.resolve = isBuild]]
                  /\ executions' = [executions EXCEPT ![id].modules = @ + 1]
  /\ UNCHANGED <<isBuild, idToLoaderModulesMap>>
  /\ UNCHANGED nonDataVars

\* part_006:193-227  loadConfigFromFile settles: the call goes on to glob the
\* watched files and calls the load function of the loader, or it rejects
ConfigLoaded(c, ok) ==
  /\ loadCalls[c].pc = "importing"
  /\ IF ok
     THEN /\ loadCalls' = [loadCalls EXCEPT
                             ![c].pc = "running",
                             ![c].run = executions[loadCalls[c].id].loads + 1]
          /\ executions' = [executions EXCEPT ![loadCalls[c].id].loads = @ + 1]
     ELSE /\ loadCalls' = [loadCalls EXCEPT ![c].pc = "rejected"]
          /\ UNCHANGED executions
  /\ UNCHANGED <<isBuild, idToPendingPromiseMap, idToLoaderModulesMap>>
  /\ UNCHANGED nonDataVars

\* part_006:227-241  the load function of the loader settles: the call keeps
\* the loader module for HMR, generates the module source, resolves the
\* promise it made and returns the source; when load() throws the call
\* rejects and the promise it made stays pending
LoadSettles(c, ok) ==
  /\ loadCalls[c].pc = "running"
  /\ IF ok
     THEN LET id == loadCalls[c].id
              result == ModuleSource(LoaderData(id, loadCalls[c].run))
          IN /\ idToLoaderModulesMap' =
                  IF ServerDefined THEN idToLoaderModulesMap \cup {id}
                  ELSE idToLoaderModulesMap
             /\ idToPendingPromiseMap' =
                  IF loadCalls[c].resolve
                  THEN [idToPendingPromiseMap EXCEPT ![id] = FulfilledPromise(result)]
                  ELSE idToPendingPromiseMap
             /\ loadCalls' = [loadCalls EXCEPT ![c].pc = "done", ![c].result = result]
     ELSE /\ loadCalls' = [loadCalls EXCEPT ![c].pc = "rejected"]
          /\ UNCHANGED <<idToPendingPromiseMap, idToLoaderModulesMap>>
  /\ UNCHANGED <<isBuild, executions>>
  /\ UNCHANGED nonDataVars

\* part_006:179  the promise a call returned is fulfilled: the caller of the
\* hook receives its value
PromiseSettles(c) ==
  /\ loadCalls[c].pc = "awaiting"
  /\ idToPendingPromiseMap[loadCalls[c].id] # NoPromise
  /\ idToPendingPromiseMap[loadCalls[c].id].state = "fulfilled"
  /\ loadCalls' = [loadCalls EXCEPT
                     ![c].pc = "done",
                     ![c].result = idToPendingPromiseMap[loadCalls[c].id].value]
  /\ UNCHANGED <<isBuild, idToPendingPromiseMap, idToLoaderModulesMap, executions>>
  /\ UNCHANGED nonDataVars

DataNext ==
  \/ \E c \in LoadCallIds, id \in LoaderIds : Load(c, id)
  \/ \E c \in LoadCallIds, ok \in BOOLEAN : ConfigLoaded(c, ok)
  \/ \E c \in LoadCallIds, ok \in BOOLEAN : LoadSettles(c, ok)
  \/ \E c \in LoadCallIds : PromiseSettles(c)

DataPluginInit == DataInit /\ RouterInit /\ BuildOff /\ call = NoCall /\ DevOff

DataSpec == DataPluginInit /\ [][DataNext]_vars

\* C29: during a build the load() calls for one loader id share one pending
\* promise: the loader module is loaded at most once and its load function
\* is called at most once per id, at most one call per id is loading or
\* running it (every other call has returned the shared promise), and all
\* callers that receive a module source for the id receive the same source
C29_BuildLoadsOncePerId ==
  isBuild
    => \A id \in LoaderIds :
         /\ executions[id].modules <= 1
         /\ executions[id].loads <= 1
         /\ Cardinality({c \in LoadCallIds :
                           loadCalls[c].id = id /\ ~loadCalls[c].shared}) <= 1
         /\ \A c \in LoadCallIds, d \in LoadCallIds :
              (/\ loadCalls[c].id = id /\ loadCalls[d].id = id
               /\ loadCalls[c].pc = "done" /\ loadCalls[d].pc = "done")
                => loadCalls[c].result = loadCalls[d].result

\* in a build, a call for an id arrived while the first call for that id was
\* in flight, one arrived after it was done, and all three have their source
C29_Witness ==
  /\ isBuild
  /\ \E id \in LoaderIds :
       /\ \A c \in LoadCallIds : loadCalls[c].id = id /\ loadCalls[c].pc = "done"
       /\ Cardinality({c \in LoadCallIds : loadCalls[c].shared}) = MaxLoadCalls - 1
       /\ executions[id].loads = 1
====
